---------------------------- MODULE Spec2Model ----------------------------
(***************************************************************************)
(* FlowPay: the Trading Client Facade (PolymarketClient) and the Gateway   *)
(* Router handlers built on it.                                            *)
(*                                                                         *)
(* Every async function is cut at its await points: one action is the      *)
(* synchronous segment that runs when a pending remote call settles, up to *)
(* and including the issue of the next remote call.  The outcome of a      *)
(* remote call is chosen when it settles.                                  *)
(*                                                                         *)
(* JavaScript values are records [t, n, s]: t is the type tag, n the       *)
(* number (for t = "num") and s the string (for t = "str") as a sequence   *)
(* of one-character strings.  Numbers are [k, v]: k is "fin", "nan", "inf" *)
(* or "ninf", v the decimal value in thousandths (0.5 is 500), and r what  *)
(* the IEEE double differs from that decimal by, in units of                *)
(* 1 / (1000 * 2^ResidualBits): the number is v/1000 + r/(1000 * 2^62).     *)
(***************************************************************************)
EXTENDS Integers, Sequences, FiniteSets, TLC

\* ------------------------------------------------------------------------
\* Bounds
\* ------------------------------------------------------------------------
\* The callers that may be inside the Facade at the same time.
NumCallers == 2
\* The calls started in one run of Spec, by all callers together.
MaxCalls == 2
\* The open orders of a remote listing.
MaxOrders == 3
\* The levels of each side of a remote order book.
MaxLevels == 2
\* The trades or markets of a remote listing.
MaxItems == 2

\* ------------------------------------------------------------------------
\* JavaScript numbers and strings
\* ------------------------------------------------------------------------
Scale == 10 * 10 * 10

\* The binary digits kept of the difference between a double and a decimal.
ResidualBits == 62

RECURSIVE Pow2(_)
Pow2(n) == IF n = 0 THEN 1 ELSE 2 * Pow2(n - 1)

\* floor(log2(m / 1000)) for m > 0.
RECURSIVE Exp2Floor(_)
Exp2Floor(m) ==
    IF m >= 2 * Scale THEN Exp2Floor(m \div 2) + 1
    ELSE IF m < Scale THEN Exp2Floor(2 * m) - 1
    ELSE 0

\* (x * 2^n) mod Scale, by doubling.
RECURSIVE ShiftMod(_, _)
ShiftMod(x, n) == IF n = 0 THEN x % Scale ELSE ShiftMod((2 * x) % Scale, n - 1)

\* What the double nearest to the decimal v/1000 differs from it by: with
\* q = 52 - floor(log2 |v/1000|) the double is M / 2^q for the integer M
\* nearest to |v| * 2^q / 1000 (53 significant bits, round to nearest; a tie
\* cannot occur for a decimal with three fraction digits).
Residual(v) ==
    IF v = 0 THEN 0
    ELSE LET m == IF v < 0 THEN 0 - v ELSE v
             q == 52 - Exp2Floor(m)
             rem == ShiftMod(m % Scale, q)
             d == IF rem < Scale - rem THEN 0 - rem ELSE Scale - rem
             r == d * Pow2(ResidualBits - q)
         IN  IF v < 0 THEN 0 - r ELSE r

\* Residual, tabulated once for the decimals up to 10.
Residuals == [v \in 0 .. 10 * Scale |-> Residual(v)]

\* The double with the exact value v/1000 + r/(1000 * 2^ResidualBits).
Double(v, r) == [k |-> "fin", v |-> v, r |-> r]

\* The double nearest to the decimal v/1000: what a number literal and
\* parseFloat of a decimal string give.
Fin(v) ==
    Double(v, IF v \in DOMAIN Residuals THEN Residuals[v]
              ELSE IF 0 - v \in DOMAIN Residuals THEN 0 - Residuals[0 - v]
              ELSE Residual(v))
NaN == [k |-> "nan", v |-> 0, r |-> 0]
PosInf == [k |-> "inf", v |-> 0, r |-> 0]
NegInf == [k |-> "ninf", v |-> 0, r |-> 0]

IsFin(x) == x.k = "fin"

Digits == {"0", "1", "2", "3", "4", "5", "6", "7", "8", "9"}

DigitVal(c) ==
    CASE c = "0" -> 0 [] c = "1" -> 1 [] c = "2" -> 2 [] c = "3" -> 3
      [] c = "4" -> 4 [] c = "5" -> 5 [] c = "6" -> 6 [] c = "7" -> 7
      [] c = "8" -> 8 [] c = "9" -> 9

\* The first index >= i of s that holds no digit (Len(s) + 1 when none).
RECURSIVE ScanDigits(_, _)
ScanDigits(s, i) ==
    IF i <= Len(s) /\ s[i] \in Digits THEN ScanDigits(s, i + 1) ELSE i

\* The first index >= i of s that holds no white space.
RECURSIVE SkipSpace(_, _)
SkipSpace(s, i) ==
    IF i <= Len(s) /\ s[i] = " " THEN SkipSpace(s, i + 1) ELSE i

\* The value of the digits s[i..j-1] as an integer.
RECURSIVE DigitsVal(_, _, _)
DigitsVal(s, i, j) ==
    IF i >= j THEN 0 ELSE DigitsVal(s, i, j - 1) * 10 + DigitVal(s[j - 1])

\* The value of the fraction digits s[i..j-1] in thousandths (the digits
\* after the third are dropped: the strings of this model hold at most three).
FracVal(s, i, j) ==
    LET d(k) == IF i + k < j THEN DigitVal(s[i + k]) ELSE 0
    IN  d(0) * 100 + d(1) * 10 + d(2)

\* The decimal literal that starts at index i of s: [ok, v, end], where end
\* is the index after the literal: sign, digits, ".", digits, with at least one
\* digit (StrDecimalLiteral without exponent).
ScanDecimal(s, i) ==
    LET neg == i <= Len(s) /\ s[i] = "-"
        plus == i <= Len(s) /\ s[i] = "+"
        a == IF neg \/ plus THEN i + 1 ELSE i
        b == ScanDigits(s, a)
        dot == b <= Len(s) /\ s[b] = "."
        c == IF dot THEN ScanDigits(s, b + 1) ELSE b
        hasInt == b > a
        hasFrac == dot /\ c > b + 1
        end == IF hasFrac \/ (dot /\ hasInt) THEN c ELSE b
        mag == DigitsVal(s, a, b) * Scale + (IF hasFrac THEN FracVal(s, b + 1, c) ELSE 0)
    IN  [ok |-> hasInt \/ hasFrac, v |-> IF neg THEN 0 - mag ELSE mag, end |-> end]

\* parseFloat of a string: the longest decimal prefix after leading white
\* space, NaN when there is none.
ParseFloatStr(s) ==
    LET r == ScanDecimal(s, SkipSpace(s, 1))
    IN  IF r.ok THEN Fin(r.v) ELSE NaN

\* Number(string): the whole trimmed string is a decimal literal, "" is 0.
StringToNumber(s) ==
    LET i == SkipSpace(s, 1)
        r == ScanDecimal(s, i)
    IN  IF i > Len(s) THEN Fin(0)
        ELSE IF r.ok /\ SkipSpace(s, r.end) > Len(s) THEN Fin(r.v)
        ELSE NaN

\* ------------------------------------------------------------------------
\* JavaScript values
\* ------------------------------------------------------------------------
Undefined == [t |-> "undef", n |-> NaN, s |-> <<>>]
Null == [t |-> "null", n |-> NaN, s |-> <<>>]
JsTrue == [t |-> "bool", n |-> Fin(Scale), s |-> <<>>]
JsNum(v) == [t |-> "num", n |-> Fin(v), s |-> <<>>]
JsStr(s) == [t |-> "str", n |-> NaN, s |-> s]

\* ToBoolean
Truthy(x) ==
    CASE x.t = "undef" -> FALSE
      [] x.t = "null" -> FALSE
      [] x.t = "bool" -> x.n.v # 0
      [] x.t = "num" -> IsFin(x.n) /\ x.n.v # 0
      [] x.t = "str" -> Len(x.s) > 0

\* ToNumber
ToNumber(x) ==
    CASE x.t = "undef" -> NaN
      [] x.t = "null" -> Fin(0)
      [] x.t = "bool" -> x.n
      [] x.t = "num" -> x.n
      [] x.t = "str" -> StringToNumber(x.s)

\* x <= c and x >= c for a number literal c (in thousandths): ToNumber of the
\* left side, false when it is NaN.
JsLe(x, c) == LET n == ToNumber(x) IN IsFin(n) /\ n.v <= c
JsGe(x, c) == LET n == ToNumber(x) IN IsFin(n) /\ n.v >= c

\* ToString of the values parseFloat is given here.
RECURSIVE NatToStr(_)
NatToStr(n) ==
    LET d == <<"0", "1", "2", "3", "4", "5", "6", "7", "8", "9">>
    IN  IF n < 10 THEN <<d[n + 1]>> ELSE NatToStr(n \div 10) \o <<d[(n % 10) + 1]>>

\* The digits of the fraction f (in thousandths), trailing zeros dropped.
FracToStr(f) ==
    LET a == NatToStr(f \div 100)
        b == NatToStr((f \div 10) % 10)
        c == NatToStr(f % 10)
    IN  IF f % 10 # 0 THEN a \o b \o c
        ELSE IF f % 100 # 0 THEN a \o b
        ELSE a

\* Number.prototype.toString of a finite number or NaN or an infinity.
NumToStr(x) ==
    CASE x.k = "nan" -> <<"N", "a", "N">>
      [] x.k = "inf" -> <<"I", "n", "f", "i", "n", "i", "t", "y">>
      [] x.k = "ninf" -> <<"-", "I", "n", "f", "i", "n", "i", "t", "y">>
      [] x.k = "fin" ->
            LET m == IF x.v < 0 THEN 0 - x.v ELSE x.v
                body == NatToStr(m \div Scale)
                          \o (IF m % Scale = 0 THEN <<>> ELSE <<".">> \o FracToStr(m % Scale))
            IN  IF x.v < 0 THEN <<"-">> \o body ELSE body

ToStr(x) ==
    CASE x.t = "undef" -> <<"u", "n", "d", "e", "f", "i", "n", "e", "d">>
      [] x.t = "null" -> <<"n", "u", "l", "l">>
      [] x.t = "bool" -> IF x.n.v # 0 THEN <<"t", "r", "u", "e">>
                                       ELSE <<"f", "a", "l", "s", "e">>
      [] x.t = "num" -> NumToStr(x.n)
      [] x.t = "str" -> x.s

\* parseFloat(x): ToString, then the decimal prefix.
ParseFloat(x) == ParseFloatStr(ToStr(x))

\* a - b.  The difference of two finite doubles is taken exactly: it is a
\* double itself when one of them is 0 or each is at most twice the other,
\* which holds for the prices of one order book here.
NumSub(a, b) ==
    IF IsFin(a) /\ IsFin(b) THEN Double(a.v - b.v, a.r - b.r)
    ELSE IF a.k = "nan" \/ b.k = "nan" \/ a.k = b.k THEN NaN
    ELSE IF a.k = "inf" \/ b.k = "ninf" THEN PosInf
    ELSE NegInf

\* Math.max(...s): -Infinity for no argument, NaN when an argument is NaN.
RECURSIVE MathMax(_)
MathMax(s) ==
    IF s = <<>> THEN NegInf
    ELSE LET h == Head(s)
             r == MathMax(Tail(s))
         IN  IF h.k = "nan" \/ r.k = "nan" THEN NaN
             ELSE IF r.k = "ninf" THEN h
             ELSE IF h.v >= r.v THEN h ELSE r

\* MathMin as the first argument (right for asks sorted by rising price).
MathMinFirst(s) == IF s = <<>> THEN PosInf ELSE Head(s)

\* Math.min(...s): Infinity for no argument, NaN when an argument is NaN.
RECURSIVE MathMin(_)
MathMin(s) ==
    IF s = <<>> THEN PosInf
    ELSE LET h == Head(s)
             r == MathMin(Tail(s))
         IN  IF h.k = "nan" \/ r.k = "nan" THEN NaN
             ELSE IF r.k = "inf" THEN h
             ELSE IF h.v <= r.v THEN h ELSE r

\* The three digits of n < 1000.
Pad3(n) == NatToStr(n \div 100) \o NatToStr((n \div 10) % 10) \o NatToStr(n % 10)

\* ((a / b) * 100).toFixed(3) for finite a and b: the quotient of two finite
\* numbers is an infinity or NaN when b is 0; otherwise the percentage is
\* rounded to the nearest thousandth, a tie away from zero, and a negative
\* value keeps its sign.  The quotient is taken on the decimal parts: the
\* residuals and the rounding of the division and the product are below
\* 10^-13 of the percentage, and move no digit unless the percentage is that
\* near to a tie.
PercentToFixed3(a, b) ==
    IF ~IsFin(a) \/ ~IsFin(b) THEN NumToStr(NaN)
    ELSE IF b.v = 0
    THEN NumToStr(IF a.v > 0 THEN PosInf ELSE IF a.v < 0 THEN NegInf ELSE NaN)
    ELSE LET neg == (a.v < 0) # (b.v < 0) /\ a.v # 0
             n == (IF a.v < 0 THEN 0 - a.v ELSE a.v) * 100 * Scale
             d == IF b.v < 0 THEN 0 - b.v ELSE b.v
             m == (2 * n + d) \div (2 * d)
         IN  (IF neg THEN <<"-">> ELSE <<>>)
                \o NatToStr(m \div Scale) \o <<".">> \o Pad3(m % Scale)

\* ------------------------------------------------------------------------
\* State
\* ------------------------------------------------------------------------
VARIABLES
    initialized,     \* PolymarketClient.initialized
    deriveCalls,     \* remote deriveApiKey calls issued so far
    deriveFailures,  \* remote deriveApiKey calls that failed so far
    pc,              \* per caller: the await point its current call is at
    call,            \* per caller: the current call [route, method, body, tokenId]
    ncalls,          \* the calls started so far, by all callers
    facade,          \* per caller: the Facade methods its current call invoked
    remote,          \* per caller: the remote calls its current call issued
    loc,             \* per caller: the locals of the Facade method
    ret,             \* per caller: what the Facade method returned or threw
    resp,            \* per caller: the HTTP response the handler sent
    gate,            \* per caller: its request in the server's middleware stack
    server           \* the main server: "starting", "listening" or "exited"; "none"
                     \* where the Facade or a router is used without it

vars == <<initialized, deriveCalls, deriveFailures, pc, call, ncalls, facade,
          remote, loc, ret, resp, gate, server>>

Procs == 1 .. NumCallers

\* The methods that start with "await this.ensureInitialized()".
CredentialedMethods ==
    {"getBalance", "getTokenBalance", "getOrderBook", "createOrder",
     "cancelOrder", "cancelAllOrders", "getOrders", "getTrades"}

\* The first remote call of each credentialed method.
FirstRemote(m) ==
    CASE m = "getBalance" -> "getBalanceAllowance"
      [] m = "getTokenBalance" -> "getBalanceAllowance"
      [] m = "getOrderBook" -> "getOrderBook"
      [] m = "createOrder" -> "createOrder"
      [] m = "cancelOrder" -> "cancelOrder"
      [] m = "cancelAllOrders" -> "getOrders"
      [] m = "getOrders" -> "getOrders"
      [] m = "getTrades" -> "getTrades"

\* The message of the Error a method throws when its remote call fails; ""
\* for the methods that return a result instead of throwing.
StableMessage(m) ==
    CASE m = "getBalance" -> "Failed to fetch balance"
      [] m = "getTokenBalance" -> "Failed to fetch token balance"
      [] m = "getOrderBook" -> "Failed to fetch order book"
      [] m = "getOrders" -> "Failed to fetch orders"
      [] m = "getTrades" -> "Failed to fetch trades"
      [] m = "getMarkets" -> "Failed to fetch markets"
      [] OTHER -> ""

\* What a remote call rejects with: an Error with a message, possibly empty.
RemoteErrors ==
    {[kind |-> "rejected", message |-> "not enough balance"],
     [kind |-> "transport", message |-> "ECONNREFUSED"],
     [kind |-> "transport", message |-> ""]}

NoCall == [route |-> "none", method |-> "none", body |-> <<>>, tokenId |-> Undefined]
\* The locals of a Facade method: the listing cancelAllOrders fetched, its
\* ordersToCancel, the index of the order whose cancellation is awaited and
\* its cancelledCount; the two responses getBalance awaited (balance,
\* allowance); and, kept for the record, the outcome of every cancellation
\* (outcomes), the errors of the failed remote calls (failed) and the order
\* book the remote service answered with (book).
NoLoc ==
    [listing |-> <<>>, orders |-> <<>>, i |-> 0, cancelledCount |-> 0,
     outcomes |-> <<>>, failed |-> <<>>, book |-> <<>>,
     balance |-> <<>>, allowance |-> <<>>]
NoRet == [kind |-> "none", val |-> <<>>]
NoResp == [status |-> 0, body |-> <<>>]
\* No request in the middleware stack: the request of a route specification
\* is at its handler already.
NoGate == [verb |-> "", path |-> <<>>, proof |-> "none", at |-> 0, trail |-> <<>>]

Return(v) == [kind |-> "return", val |-> v]
Throw(msg) == [kind |-> "throw", val |-> [message |-> msg]]

RemoteCall(name, arg) == [name |-> name, arg |-> arg]

\* error.message || fallback
OrElse(msg, fallback) == IF msg # "" THEN msg ELSE fallback

InitError == "Failed to initialize Polymarket client"

\* ------------------------------------------------------------------------
\* Router: the response of each route to the outcome of its Facade call
\* ------------------------------------------------------------------------
Status500(msg, fallback) ==
    [status |-> 500, body |-> [success |-> FALSE, error |-> OrElse(msg, fallback)]]

Status400(msg) == [status |-> 400, body |-> [success |-> FALSE, error |-> msg]]

\* PostOrdersRespond with a top-level success of its own.
PostOrdersRespondOk(out) ==
    IF out.kind = "return"
    THEN [status |-> 200, body |-> [success |-> TRUE, order |-> out.val]]
    ELSE Status500(out.val.message, "Failed to create order")

\* POST /orders after client.createOrder settled.
PostOrdersRespond(out) ==
    IF out.kind = "return"
    THEN [status |-> 200, body |-> [success |-> out.val.success, order |-> out.val]]
    ELSE Status500(out.val.message, "Failed to create order")

\* DELETE /orders after client.cancelAllOrders settled.
DeleteOrdersRespond(out) ==
    IF out.kind = "return"
    THEN [status |-> 200, body |-> out.val]
    ELSE Status500(out.val.message, "Failed to cancel orders")

\* GET /markets/:tokenId/orderbook after client.getOrderBook settled.
OrderBookRespond(out) ==
    IF out.kind = "return"
    THEN [status |-> 200, body |-> [success |-> TRUE, data |-> out.val]]
    ELSE Status500(out.val.message, "Failed to fetch order book")

\* GET /markets/:tokenId/quote after client.getOrderBook settled.
QuoteRespond(tokenId, out) ==
    IF out.kind = "return"
    THEN [status |-> 200,
          body |-> [success |-> TRUE,
                    quote |-> [tokenId |-> tokenId,
                               bestBid |-> out.val.bestBid,
                               bestAsk |-> out.val.bestAsk,
                               spread |-> out.val.spread,
                               spreadPercentage |->
                                   PercentToFixed3(out.val.spread, out.val.bestBid)]]]
    ELSE Status500(out.val.message, "Failed to fetch quote")

\* GET /balance after client.getBalance settled.
BalanceRespond(out) ==
    IF out.kind = "return"
    THEN [status |-> 200, body |-> [success |-> TRUE, balance |-> out.val]]
    ELSE Status500(out.val.message, "Failed to fetch balance")

\* GET /balance/:tokenId after client.getTokenBalance settled.
TokenBalanceRespond(out) ==
    IF out.kind = "return"
    THEN [status |-> 200, body |-> [success |-> TRUE, balance |-> out.val]]
    ELSE Status500(out.val.message, "Failed to fetch token balance")

\* GET /orders after client.getOrders settled.
OrdersRespond(out) ==
    IF out.kind = "return"
    THEN [status |-> 200,
          body |-> [success |-> TRUE, count |-> Len(out.val), orders |-> out.val]]
    ELSE Status500(out.val.message, "Failed to fetch orders")

\* CancelOrderRespond with a 500 for a cancellation that did not succeed.
CancelOrderRespondStrict(out) ==
    IF out.kind = "return" /\ out.val.success
    THEN [status |-> 200, body |-> out.val]
    ELSE Status500(out.val.message, "Failed to cancel order")

\* DELETE /orders/:orderId after client.cancelOrder settled.
CancelOrderRespond(out) ==
    IF out.kind = "return"
    THEN [status |-> 200, body |-> out.val]
    ELSE Status500(out.val.message, "Failed to cancel order")

\* GET /trades after client.getTrades settled.
TradesRespond(out) ==
    IF out.kind = "return"
    THEN [status |-> 200,
          body |-> [success |-> TRUE, count |-> Len(out.val), trades |-> out.val]]
    ELSE Status500(out.val.message, "Failed to fetch trades")

\* GET /markets after client.getMarkets settled.
MarketsRespond(out) ==
    IF out.kind = "return"
    THEN [status |-> 200,
          body |-> [success |-> TRUE, count |-> Len(out.val), markets |-> out.val]]
    ELSE Status500(out.val.message, "Failed to fetch markets")

\* The handler's continuation once the Facade call of `route` settled with
\* `out`; a direct call of the Facade (route "none") sends nothing.
Respond(route, tokenId, out) ==
    CASE route = "POST /orders" -> PostOrdersRespond(out)
      [] route = "DELETE /orders" -> DeleteOrdersRespond(out)
      [] route = "GET /markets/:tokenId/orderbook" -> OrderBookRespond(out)
      [] route = "GET /markets/:tokenId/quote" -> QuoteRespond(tokenId, out)
      [] route = "GET /balance" -> BalanceRespond(out)
      [] route = "GET /balance/:tokenId" -> TokenBalanceRespond(out)
      [] route = "GET /orders" -> OrdersRespond(out)
      [] route = "DELETE /orders/:orderId" -> CancelOrderRespond(out)
      [] route = "GET /trades" -> TradesRespond(out)
      [] route = "GET /markets" -> MarketsRespond(out)
      [] OTHER -> NoResp

\* ------------------------------------------------------------------------
\* Facade: initialize / ensureInitialized
\* ------------------------------------------------------------------------
\* EnterFacade with an initialize() that has no "if (this.initialized) return".
EnterFacadeRederive(p, c, params) ==
    /\ call' = [call EXCEPT ![p] = c]
    /\ ncalls' = ncalls + 1
    /\ UNCHANGED <<gate, server>>
    /\ facade' = [facade EXCEPT ![p] = <<[method |-> c.method, params |-> params]>>]
    /\ loc' = [loc EXCEPT ![p] = NoLoc]
    /\ ret' = [ret EXCEPT ![p] = NoRet]
    /\ resp' = [resp EXCEPT ![p] = NoResp]
    /\ UNCHANGED <<initialized, deriveFailures>>
    /\ IF initialized /\ c.method # "initialize"
       THEN /\ pc' = [pc EXCEPT ![p] = "ready"]
            /\ remote' = [remote EXCEPT ![p] = <<>>]
            /\ UNCHANGED deriveCalls
       ELSE /\ pc' = [pc EXCEPT ![p] = "deriving"]
            /\ remote' = [remote EXCEPT ![p] = <<RemoteCall("deriveApiKey", <<>>)>>]
            /\ deriveCalls' = deriveCalls + 1

\* EnterFacade with an ensureInitialized that does not initialize.
EnterFacadeNoInit(p, c, params) ==
    /\ call' = [call EXCEPT ![p] = c]
    /\ ncalls' = ncalls + 1
    /\ UNCHANGED <<gate, server>>
    /\ facade' = [facade EXCEPT ![p] = <<[method |-> c.method, params |-> params]>>]
    /\ loc' = [loc EXCEPT ![p] = NoLoc]
    /\ ret' = [ret EXCEPT ![p] = NoRet]
    /\ resp' = [resp EXCEPT ![p] = NoResp]
    /\ UNCHANGED <<initialized, deriveFailures>>
    /\ IF initialized \/ c.method # "initialize"
       THEN /\ pc' = [pc EXCEPT ![p] = IF c.method = "initialize" THEN "returning" ELSE "ready"]
            /\ remote' = [remote EXCEPT ![p] = <<>>]
            /\ UNCHANGED deriveCalls
       ELSE /\ pc' = [pc EXCEPT ![p] = "deriving"]
            /\ remote' = [remote EXCEPT ![p] = <<RemoteCall("deriveApiKey", <<>>)>>]
            /\ deriveCalls' = deriveCalls + 1

\* EnterFacade with an initialize() that remembers a failed derivation and
\* throws again without a new attempt.
EnterFacadeRemember(p, c, params) ==
    /\ call' = [call EXCEPT ![p] = c]
    /\ ncalls' = ncalls + 1
    /\ UNCHANGED <<gate, server>>
    /\ facade' = [facade EXCEPT ![p] = <<[method |-> c.method, params |-> params]>>]
    /\ loc' = [loc EXCEPT ![p] = NoLoc]
    /\ UNCHANGED <<initialized, deriveFailures>>
    /\ IF initialized
       THEN /\ pc' = [pc EXCEPT ![p] = IF c.method = "initialize" THEN "returning" ELSE "ready"]
            /\ remote' = [remote EXCEPT ![p] = <<>>]
            /\ ret' = [ret EXCEPT ![p] = NoRet]
            /\ resp' = [resp EXCEPT ![p] = NoResp]
            /\ UNCHANGED deriveCalls
       ELSE IF deriveFailures > 0
       THEN /\ pc' = [pc EXCEPT ![p] = "done"]
            /\ remote' = [remote EXCEPT ![p] = <<>>]
            /\ ret' = [ret EXCEPT ![p] = Throw(InitError)]
            /\ resp' = [resp EXCEPT ![p] = Respond(c.route, c.tokenId, Throw(InitError))]
            /\ UNCHANGED deriveCalls
       ELSE /\ pc' = [pc EXCEPT ![p] = "deriving"]
            /\ remote' = [remote EXCEPT ![p] = <<RemoteCall("deriveApiKey", <<>>)>>]
            /\ ret' = [ret EXCEPT ![p] = NoRet]
            /\ resp' = [resp EXCEPT ![p] = NoResp]
            /\ deriveCalls' = deriveCalls + 1

\* The synchronous start of a Facade method called by p: ensureInitialized
\* reads the flag, and initialize reads it again and issues deriveApiKey.
EnterFacade(p, c, params) ==
    /\ call' = [call EXCEPT ![p] = c]
    /\ ncalls' = ncalls + 1
    /\ UNCHANGED <<gate, server>>
    /\ facade' = [facade EXCEPT ![p] = <<[method |-> c.method, params |-> params]>>]
    /\ loc' = [loc EXCEPT ![p] = NoLoc]
    /\ ret' = [ret EXCEPT ![p] = NoRet]
    /\ resp' = [resp EXCEPT ![p] = NoResp]
    /\ UNCHANGED <<initialized, deriveFailures>>
    /\ IF initialized
       THEN /\ pc' = [pc EXCEPT ![p] = IF c.method = "initialize" THEN "returning" ELSE "ready"]
            /\ remote' = [remote EXCEPT ![p] = <<>>]
            /\ UNCHANGED deriveCalls
       ELSE /\ pc' = [pc EXCEPT ![p] = "deriving"]
            /\ remote' = [remote EXCEPT ![p] = <<RemoteCall("deriveApiKey", <<>>)>>]
            /\ deriveCalls' = deriveCalls + 1

\* The Facade method of p settles with `out`, and the route handler that
\* awaited it sends its response.
Settle(p, out) ==
    /\ pc' = [pc EXCEPT ![p] = "done"]
    /\ ret' = [ret EXCEPT ![p] = out]
    /\ resp' = [resp EXCEPT ![p] = Respond(call[p].route, call[p].tokenId, out)]

\* A direct call of a Facade method (no route): initialize() at startup, or a
\* credentialed method.
Invoke(p, m) ==
    /\ pc[p] \in {"idle", "done"}
    /\ ncalls < MaxCalls
    /\ EnterFacade(p, [NoCall EXCEPT !.method = m], <<>>)

\* deriveApiKey of p resolved: the flag is set, initialize and
\* ensureInitialized return.
DeriveOk(p) ==
    /\ pc[p] = "deriving"
    /\ initialized' = TRUE
    /\ pc' = [pc EXCEPT ![p] = IF call[p].method = "initialize" THEN "returning" ELSE "ready"]
    /\ UNCHANGED <<deriveCalls, deriveFailures, call, ncalls, gate, server, facade, remote, loc, ret, resp>>

\* DeriveFail with a catch block that clears the flag.
DeriveFailReset(p) ==
    /\ pc[p] = "deriving"
    /\ deriveFailures' = deriveFailures + 1
    /\ initialized' = FALSE
    /\ Settle(p, Throw(InitError))
    /\ UNCHANGED <<deriveCalls, call, ncalls, gate, server, facade, remote, loc>>

\* deriveApiKey of p rejected: initialize throws, and the error leaves the
\* Facade method, which awaits ensureInitialized outside its try block.
DeriveFail(p) ==
    /\ pc[p] = "deriving"
    /\ deriveFailures' = deriveFailures + 1
    /\ Settle(p, Throw(InitError))
    /\ UNCHANGED <<initialized, deriveCalls, call, ncalls, gate, server, facade, remote, loc>>

\* initialize() returns to its direct caller.
InitializeReturn(p) ==
    /\ pc[p] = "returning"
    /\ Settle(p, Return(<<>>))
    /\ UNCHANGED <<initialized, deriveCalls, deriveFailures, call, ncalls, gate, server, facade, remote, loc>>

\* After ensureInitialized returned, the method of p issues its first remote
\* call.
IssueFirst(p) ==
    /\ pc[p] = "ready"
    /\ call[p].route = "none"
    /\ pc' = [pc EXCEPT ![p] = "called"]
    /\ remote' = [remote EXCEPT ![p] = Append(@, RemoteCall(FirstRemote(call[p].method), <<>>))]
    /\ UNCHANGED <<initialized, deriveCalls, deriveFailures, call, ncalls, gate, server, facade, loc, ret, resp>>

\* The rest of a directly called method, to its end: it returns, or throws
\* its stable message.
Finish(p) ==
    /\ pc[p] = "called"
    /\ \E ok \in BOOLEAN :
         Settle(p, IF ok \/ StableMessage(call[p].method) = ""
                   THEN Return(<<>>) ELSE Throw(StableMessage(call[p].method)))
    /\ UNCHANGED <<initialized, deriveCalls, deriveFailures, call, ncalls, gate, server, facade, remote, loc>>

InitState ==
    /\ deriveFailures = 0
    /\ pc = [p \in Procs |-> "idle"]
    /\ call = [p \in Procs |-> NoCall]
    /\ ncalls = 0
    /\ facade = [p \in Procs |-> <<>>]
    /\ remote = [p \in Procs |-> <<>>]
    /\ loc = [p \in Procs |-> NoLoc]
    /\ ret = [p \in Procs |-> NoRet]
    /\ resp = [p \in Procs |-> NoResp]
    /\ gate = [p \in Procs |-> NoGate]

\* After construction: the flag is false.
Init ==
    /\ initialized = FALSE
    /\ deriveCalls = 0
    /\ server = "none"
    /\ InitState

\* The credential lifecycle under concurrent callers of the Facade.
Next ==
    \E p \in Procs :
        \/ \E m \in CredentialedMethods \cup {"initialize"} : Invoke(p, m)
        \/ DeriveOk(p)
        \/ DeriveFail(p)
        \/ InitializeReturn(p)
        \/ IssueFirst(p)
        \/ Finish(p)

Spec == Init /\ [][Next]_vars

\* ------------------------------------------------------------------------
\* POST /orders and PolymarketClient.createOrder
\* ------------------------------------------------------------------------
BUY == <<"B", "U", "Y">>
SELL == <<"S", "E", "L", "L">>

\* The values a JSON body gives the fields of an order.
TokenInputs == {Undefined, JsStr(<<>>), JsStr(<<"T">>)}

PriceInputs ==
    {Undefined, Null, JsTrue,
     JsNum(0), JsNum(500), JsNum(Scale), JsNum(0 - 100), JsNum(2 * Scale),
     JsStr(<<"0", ".", "5">>), JsStr(<<"0">>), JsStr(<<"1">>),
     JsStr(<<"a", "b", "c">>), JsStr(<<"2", "a", "b", "c">>)}

SizeInputs ==
    {Undefined, JsTrue,
     JsNum(0), JsNum(10 * Scale), JsNum(0 - 5 * Scale),
     JsStr(<<"1", "0">>), JsStr(<<"-", "5">>), JsStr(<<"a", "b", "c">>),
     JsStr(<<"-", "5", "x">>)}

SideInputs ==
    {Undefined, JsStr(BUY), JsStr(SELL), JsStr(<<"H", "O", "L", "D">>),
     JsStr(<<"b", "u", "y">>)}

OrderBodies ==
    [tokenId : TokenInputs, price : PriceInputs, size : SizeInputs, side : SideInputs]

\* ValidateOrder without its last check (size > 0).
ValidateOrderNoSize(b) ==
    IF ~Truthy(b.tokenId) \/ ~Truthy(b.price) \/ ~Truthy(b.size) \/ ~Truthy(b.side)
    THEN "Missing required fields: tokenId, price, size, side"
    ELSE IF b.side # JsStr(BUY) /\ b.side # JsStr(SELL)
    THEN "Side must be either BUY or SELL"
    ELSE IF JsLe(b.price, 0) \/ JsGe(b.price, Scale)
    THEN "Price must be between 0 and 1"
    ELSE ""

\* The handler's validation: the message of its 400 response, "" when the
\* body passes.
ValidateOrder(b) ==
    IF ~Truthy(b.tokenId) \/ ~Truthy(b.price) \/ ~Truthy(b.size) \/ ~Truthy(b.side)
    THEN "Missing required fields: tokenId, price, size, side"
    ELSE IF b.side # JsStr(BUY) /\ b.side # JsStr(SELL)
    THEN "Side must be either BUY or SELL"
    ELSE IF JsLe(b.price, 0) \/ JsGe(b.price, Scale)
    THEN "Price must be between 0 and 1"
    ELSE IF JsLe(b.size, 0)
    THEN "Size must be greater than 0"
    ELSE ""

\* The OrderParams the handler builds for client.createOrder.
OrderParams(b) ==
    [tokenId |-> b.tokenId, price |-> ParseFloat(b.price),
     size |-> ParseFloat(b.size), side |-> b.side]

\* The orderArgs createOrder builds for the remote createOrder.
OrderArgs(params) ==
    [tokenID |-> params.tokenId, price |-> NumToStr(params.price),
     size |-> NumToStr(params.size),
     side |-> IF params.side = JsStr(BUY) THEN BUY ELSE SELL,
     feeRateBps |-> <<"0">>]

\* The order identifiers a postOrder response carries ("" for none).
OrderIds == {"", "0xabc"}

\* CreateOrderCatch without the fallback message.
CreateOrderCatchRaw(e) ==
    [orderId |-> "", success |-> FALSE, message |-> e.message]

\* The result of createOrder's catch block for the error e.
CreateOrderCatch(e) ==
    [orderId |-> "", success |-> FALSE,
     message |-> OrElse(e.message, "Failed to create order")]

\* The result of createOrder for the postOrder response with orderID id.
CreateOrderResult(id) ==
    [orderId |-> OrElse(id, "unknown"), success |-> TRUE,
     message |-> "Order placed successfully"]

\* Reject without the "return" before res.status(400): the handler goes on
\* to the Facade call.
RejectAndGoOn(p, c, response) ==
    /\ call' = [call EXCEPT ![p] = c]
    /\ ncalls' = ncalls + 1
    /\ UNCHANGED <<gate, server>>
    /\ pc' = [pc EXCEPT ![p] = IF initialized THEN "ready" ELSE "deriving"]
    /\ resp' = [resp EXCEPT ![p] = response]
    /\ facade' = [facade EXCEPT ![p] = <<[method |-> c.method, params |-> <<>>]>>]
    /\ remote' = [remote EXCEPT ![p] =
                    IF initialized THEN <<>> ELSE <<RemoteCall("deriveApiKey", <<>>)>>]
    /\ deriveCalls' = IF initialized THEN deriveCalls ELSE deriveCalls + 1
    /\ UNCHANGED <<initialized, deriveFailures, loc, ret>>

\* A request that the handler answers by itself, without the Facade.
Reject(p, c, response) ==
    /\ call' = [call EXCEPT ![p] = c]
    /\ ncalls' = ncalls + 1
    /\ UNCHANGED <<gate, server>>
    /\ pc' = [pc EXCEPT ![p] = "done"]
    /\ resp' = [resp EXCEPT ![p] = response]
    /\ UNCHANGED <<initialized, deriveCalls, deriveFailures, facade, remote, loc, ret>>

\* POST /orders arrives with body b: validation, then client.createOrder up
\* to its first await.
PostOrders(p, b) ==
    /\ pc[p] = "idle"
    /\ LET c == [route |-> "POST /orders", method |-> "createOrder",
                 body |-> b, tokenId |-> Undefined]
       IN  IF ValidateOrder(b) # ""
           THEN Reject(p, c, Status400(ValidateOrder(b)))
           ELSE EnterFacade(p, c, OrderParams(b))

\* createOrder after ensureInitialized: the remote createOrder is issued.
CreateOrderSign(p) ==
    /\ pc[p] = "ready"
    /\ call[p].route = "POST /orders"
    /\ pc' = [pc EXCEPT ![p] = "signing"]
    /\ remote' = [remote EXCEPT ![p] =
                    Append(@, RemoteCall("createOrder", OrderArgs(facade[p][1].params)))]
    /\ UNCHANGED <<initialized, deriveCalls, deriveFailures, call, ncalls, gate, server, facade, loc, ret, resp>>

\* The remote createOrder resolved: the signed order is posted.
CreateOrderSigned(p) ==
    /\ pc[p] = "signing"
    /\ pc' = [pc EXCEPT ![p] = "posting"]
    /\ remote' = [remote EXCEPT ![p] = Append(@, RemoteCall("postOrder", "GTC"))]
    /\ UNCHANGED <<initialized, deriveCalls, deriveFailures, call, ncalls, gate, server, facade, loc, ret, resp>>

\* The remote postOrder resolved with a response that carries orderID id.
PostOrderOk(p) ==
    /\ pc[p] = "posting"
    /\ \E id \in OrderIds : Settle(p, Return(CreateOrderResult(id)))
    /\ UNCHANGED <<initialized, deriveCalls, deriveFailures, call, ncalls, gate, server, facade, remote, loc>>

\* The remote createOrder or postOrder rejected with e: the catch block.
CreateOrderFail(p) ==
    /\ pc[p] \in {"signing", "posting"}
    /\ \E e \in RemoteErrors :
         /\ loc' = [loc EXCEPT ![p].failed = Append(@, e)]
         /\ Settle(p, Return(CreateOrderCatch(e)))
    /\ UNCHANGED <<initialized, deriveCalls, deriveFailures, call, ncalls, gate, server, facade, remote>>

\* The caller that sends the single request of the route specifications.
Client == CHOOSE p \in Procs : \A q \in Procs : p <= q

\* A server whose Facade was initialized at startup, or not yet.
InitRoutes ==
    /\ initialized \in BOOLEAN
    /\ deriveCalls = IF initialized THEN 1 ELSE 0
    /\ server = "none"
    /\ InitState

\* One POST /orders request.
NextOrder ==
    \/ \E b \in OrderBodies : PostOrders(Client, b)
    \/ DeriveOk(Client)
    \/ DeriveFail(Client)
    \/ CreateOrderSign(Client)
    \/ CreateOrderSigned(Client)
    \/ PostOrderOk(Client)
    \/ CreateOrderFail(Client)

SpecOrder == InitRoutes /\ [][NextOrder]_vars

\* ------------------------------------------------------------------------
\* DELETE /orders and PolymarketClient.cancelAllOrders
\* ------------------------------------------------------------------------
\* What req.query.tokenId is: absent, empty ("?tokenId="), or a token.
TokenFilters == {Undefined, JsStr(<<>>), JsStr(<<"T", "1">>), JsStr(<<"T", "2">>)}

\* The asset identifiers of the open orders.
Assets == {JsStr(<<"T", "1">>), JsStr(<<"T", "2">>)}

OpenOrders == [id : 1 .. MaxOrders, asset_id : Assets]

\* The listings the remote getOrders answers with: up to MaxOrders open
\* orders, each with an identifier of its own.
Listings ==
    UNION {{s \in [1 .. n -> OpenOrders] :
              \A i, j \in 1 .. n : i # j => s[i].id # s[j].id} : n \in 0 .. MaxOrders}

\* orders.filter(order => order.asset_id === tokenId)
RECURSIVE FilterByAsset(_, _)
FilterByAsset(orders, tokenId) ==
    IF orders = <<>> THEN <<>>
    ELSE (IF Head(orders).asset_id = tokenId THEN <<Head(orders)>> ELSE <<>>)
            \o FilterByAsset(Tail(orders), tokenId)

\* OrdersToCancel without the filter.
OrdersToCancelAll(orders, tokenId) == orders

\* ordersToCancel = tokenId ? orders.filter(...) : orders
OrdersToCancel(orders, tokenId) ==
    IF Truthy(tokenId) THEN FilterByAsset(orders, tokenId) ELSE orders

\* NextCount that counts every attempt.
NextCountAttempts(count, ok) == count + 1

\* cancelledCount after one cancelOrder settled: the increment follows the
\* await inside the inner try, the inner catch only logs.
NextCount(count, ok) == IF ok THEN count + 1 ELSE count

\* DELETE /orders arrives: no validation, client.cancelAllOrders up to its
\* first await.
DeleteOrders(p, tokenId) ==
    /\ pc[p] = "idle"
    /\ EnterFacade(p, [route |-> "DELETE /orders", method |-> "cancelAllOrders",
                       body |-> <<>>, tokenId |-> tokenId], tokenId)

\* cancelAllOrders after ensureInitialized: the remote getOrders is issued.
CancelAllList(p) ==
    /\ pc[p] = "ready"
    /\ call[p].route = "DELETE /orders"
    /\ pc' = [pc EXCEPT ![p] = "listing"]
    /\ remote' = [remote EXCEPT ![p] = Append(@, RemoteCall("getOrders", <<>>))]
    /\ UNCHANGED <<initialized, deriveCalls, deriveFailures, call, ncalls, gate, server, facade, loc, ret, resp>>

\* getOrders resolved with a listing: the orders to cancel are selected and
\* the first cancelOrder is issued, or, with none to cancel, the method
\* returns.
CancelAllListed(p) ==
    /\ pc[p] = "listing"
    /\ \E listing \in Listings :
         LET sel == OrdersToCancel(listing, call[p].tokenId)
         IN  /\ loc' = [loc EXCEPT ![p].listing = listing, ![p].orders = sel,
                                   ![p].cancelledCount = 0,
                                   ![p].i = IF sel = <<>> THEN 0 ELSE 1]
             /\ IF sel = <<>>
                THEN /\ Settle(p, Return([success |-> TRUE, cancelledCount |-> 0]))
                     /\ UNCHANGED remote
                ELSE /\ pc' = [pc EXCEPT ![p] = "cancelling"]
                     /\ remote' = [remote EXCEPT ![p] =
                                     Append(@, RemoteCall("cancelOrder", sel[1].id))]
                     /\ UNCHANGED <<ret, resp>>
    /\ UNCHANGED <<initialized, deriveCalls, deriveFailures, call, ncalls, gate, server, facade>>

\* CancelAllListFail with an outer catch that throws instead of returning.
CancelAllListFailRaise(p) ==
    /\ pc[p] = "listing"
    /\ \E e \in RemoteErrors :
         /\ loc' = [loc EXCEPT ![p].failed = Append(@, e)]
         /\ Settle(p, Throw("Failed to cancel orders"))
    /\ UNCHANGED <<initialized, deriveCalls, deriveFailures, call, ncalls, gate, server, facade, remote>>

\* getOrders rejected: the outer catch.
CancelAllListFail(p) ==
    /\ pc[p] = "listing"
    /\ \E e \in RemoteErrors :
         /\ loc' = [loc EXCEPT ![p].failed = Append(@, e)]
         /\ Settle(p, Return([success |-> FALSE, cancelledCount |-> 0]))
    /\ UNCHANGED <<initialized, deriveCalls, deriveFailures, call, ncalls, gate, server, facade, remote>>

\* The cancelOrder of the order at index i settled (resolved or rejected):
\* the loop goes on to the next order, or the method returns.
CancelSettled(p) ==
    /\ pc[p] = "cancelling"
    /\ \E ok \in BOOLEAN :
         LET l == loc[p]
             count == NextCount(l.cancelledCount, ok)
         IN  IF l.i < Len(l.orders)
             THEN /\ loc' = [loc EXCEPT ![p].cancelledCount = count, ![p].i = l.i + 1,
                                        ![p].outcomes = Append(@, ok)]
                  /\ remote' = [remote EXCEPT ![p] =
                                  Append(@, RemoteCall("cancelOrder", l.orders[l.i + 1].id))]
                  /\ UNCHANGED <<pc, ret, resp>>
             ELSE /\ loc' = [loc EXCEPT ![p].cancelledCount = count,
                                        ![p].outcomes = Append(@, ok)]
                  /\ Settle(p, Return([success |-> TRUE, cancelledCount |-> count]))
                  /\ UNCHANGED remote
    /\ UNCHANGED <<initialized, deriveCalls, deriveFailures, call, ncalls, gate, server, facade>>

\* One DELETE /orders request.
NextCancel ==
    \/ \E tokenId \in TokenFilters : DeleteOrders(Client, tokenId)
    \/ DeriveOk(Client)
    \/ DeriveFail(Client)
    \/ CancelAllList(Client)
    \/ CancelAllListed(Client)
    \/ CancelAllListFail(Client)
    \/ CancelSettled(Client)

SpecCancel == InitRoutes /\ [][NextCancel]_vars

\* ------------------------------------------------------------------------
\* GET /markets/:tokenId/orderbook, /quote and PolymarketClient.getOrderBook
\* ------------------------------------------------------------------------
\* The price and size strings of the levels of a remote order book.
PriceStrs == {<<"0">>, <<"0", ".", "9", "7">>, <<"0", ".", "9", "7", "5">>}
SizeStrs == {<<"5">>, <<"1", "0">>}

Levels == [price : PriceStrs, size : SizeStrs]

SeqsUpTo(S, n) == UNION {[1 .. k -> S] : k \in 0 .. n}

\* The order books the remote getOrderBook answers with.
Books == [bids : SeqsUpTo(Levels, MaxLevels), asks : SeqsUpTo(Levels, MaxLevels)]

\* l => ({price: parseFloat(l.price), size: parseFloat(l.size)}), tabulated
\* once for the levels of the remote books.
ParseLevel ==
    [l \in Levels |-> [price |-> ParseFloatStr(l.price), size |-> ParseFloatStr(l.size)]]

\* levels.map(ParseLevel)
ParseLevels(levels) == [k \in 1 .. Len(levels) |-> ParseLevel[levels[k]]]

Prices(levels) == [k \in 1 .. Len(levels) |-> levels[k].price]

\* The MarketData getOrderBook returns for the remote order book.
MarketDataOf(tokenId, book) ==
    LET bids == ParseLevels(book.bids)
        asks == ParseLevels(book.asks)
        bidPrices == Prices(bids)
        askPrices == Prices(asks)
        bestBid == IF Len(bidPrices) > 0 THEN MathMax(bidPrices) ELSE Fin(0)
        bestAsk == IF Len(askPrices) > 0 THEN MathMin(askPrices) ELSE Fin(0)
    IN  [tokenId |-> tokenId, bestBid |-> bestBid, bestAsk |-> bestAsk,
         spread |-> NumSub(bestAsk, bestBid), bids |-> bids, asks |-> asks]

\* The token of the path: Express matches the route only with a non-empty
\* segment.
PathTokens == {JsStr(<<"1", "2", "3">>)}

BookRoutes == {"GET /markets/:tokenId/orderbook", "GET /markets/:tokenId/quote"}

\* GET /markets/:tokenId/orderbook or /quote arrives: the token check, then
\* client.getOrderBook up to its first await.
GetBook(p, route, tokenId) ==
    /\ pc[p] = "idle"
    /\ LET c == [route |-> route, method |-> "getOrderBook", body |-> <<>>,
                 tokenId |-> tokenId]
       IN  IF ~Truthy(tokenId)
           THEN Reject(p, c, Status400("Token ID is required"))
           ELSE EnterFacade(p, c, tokenId)

\* getOrderBook after ensureInitialized: the remote getOrderBook is issued.
BookFetch(p) ==
    /\ pc[p] = "ready"
    /\ call[p].route \in BookRoutes
    /\ pc' = [pc EXCEPT ![p] = "fetching"]
    /\ remote' = [remote EXCEPT ![p] = Append(@, RemoteCall("getOrderBook", call[p].tokenId))]
    /\ UNCHANGED <<initialized, deriveCalls, deriveFailures, call, ncalls, gate, server, facade, loc, ret, resp>>

\* The remote getOrderBook resolved with a book.
BookFetched(p) ==
    /\ pc[p] = "fetching"
    /\ \E book \in Books :
         /\ loc' = [loc EXCEPT ![p].book = book]
         /\ Settle(p, Return(MarketDataOf(call[p].tokenId, book)))
    /\ UNCHANGED <<initialized, deriveCalls, deriveFailures, call, ncalls, gate, server, facade, remote>>

\* BookFail with a catch block that throws the remote error on.
BookFailRaw(p) ==
    /\ pc[p] = "fetching"
    /\ \E e \in RemoteErrors :
         /\ loc' = [loc EXCEPT ![p].failed = Append(@, e)]
         /\ Settle(p, Throw(e.message))
    /\ UNCHANGED <<initialized, deriveCalls, deriveFailures, call, ncalls, gate, server, facade, remote>>

\* The remote getOrderBook rejected: the catch throws the stable message.
BookFail(p) ==
    /\ pc[p] = "fetching"
    /\ \E e \in RemoteErrors :
         /\ loc' = [loc EXCEPT ![p].failed = Append(@, e)]
         /\ Settle(p, Throw(StableMessage("getOrderBook")))
    /\ UNCHANGED <<initialized, deriveCalls, deriveFailures, call, ncalls, gate, server, facade, remote>>

\* One request for an order book or a quote.
NextBook ==
    \/ \E route \in BookRoutes, tokenId \in PathTokens : GetBook(Client, route, tokenId)
    \/ DeriveOk(Client)
    \/ DeriveFail(Client)
    \/ BookFetch(Client)
    \/ BookFetched(Client)
    \/ BookFail(Client)

SpecBook == InitRoutes /\ [][NextBook]_vars

\* ------------------------------------------------------------------------
\* GET /balance, /balance/:tokenId, /orders, /trades, DELETE /orders/:orderId
\* ------------------------------------------------------------------------
\* The balance and allowance strings of a remote response, in units of
\* 1/1,000,000 dollar: whole thousandths of a dollar.
AmountStrs == {<<"0">>, <<"1", "0", "0", "0", "0", "0">>, <<"1", "5", "0", "0", "0", "0", "0">>}

\* The responses of the remote getBalanceAllowance.
BalanceAllowances == [balance : AmountStrs, allowance : AmountStrs]

\* x / 1e6, for x a whole number of thousands (the quotient is then a
\* decimal in thousandths, and the division gives the double nearest to it).
DivMillion(x) == IF IsFin(x) THEN Fin(x.v \div (Scale * Scale)) ELSE x

\* parseFloat of the amounts, tabulated once.
ParseAmount == [s \in AmountStrs |-> ParseFloatStr(s)]

\* The Balance getBalance builds from the two responses it awaited.
BalanceOf(balance, allowance) ==
    [balanceUSD |-> DivMillion(ParseAmount[balance.balance]),
     allowanceUSD |-> DivMillion(ParseAmount[allowance.allowance])]

\* The TokenBalance getTokenBalance builds from the response it awaited.
TokenBalanceOf(tokenId, balance) ==
    [tokenId |-> tokenId,
     balanceUSD |-> DivMillion(ParseAmount[balance.balance]),
     allowanceUSD |-> DivMillion(ParseAmount[balance.allowance])]

\* tokenId ? orders.filter(order => order.asset_id === tokenId) : orders
OrdersOf(orders, tokenId) ==
    IF Truthy(tokenId) THEN FilterByAsset(orders, tokenId) ELSE orders

\* What req.params.orderId is: a path segment, never empty.
PathOrderIds == {JsStr(<<"0", "x", "1">>)}

Trades == {"trade-a", "trade-b"}

\* The listings the remote getTrades answers with.
TradeLists == SeqsUpTo(Trades, MaxItems)

\* The result of cancelOrder: its try block, or its catch block for e.
CancelOrderResult(ok, e) ==
    IF ok THEN [success |-> TRUE, message |-> "Order cancelled successfully"]
    ELSE [success |-> FALSE, message |-> OrElse(e.message, "Failed to cancel order")]

ReadRoutes ==
    {"GET /balance", "GET /balance/:tokenId", "GET /orders",
     "DELETE /orders/:orderId", "GET /trades"}

\* GET /balance arrives: client.getBalance up to its first await.
GetBalance(p) ==
    /\ pc[p] = "idle"
    /\ EnterFacade(p, [route |-> "GET /balance", method |-> "getBalance",
                       body |-> <<>>, tokenId |-> Undefined], <<>>)

\* GET /balance/:tokenId arrives: the token check, then
\* client.getTokenBalance up to its first await.
GetTokenBalance(p, tokenId) ==
    /\ pc[p] = "idle"
    /\ LET c == [route |-> "GET /balance/:tokenId", method |-> "getTokenBalance",
                 body |-> <<>>, tokenId |-> tokenId]
       IN  IF ~Truthy(tokenId)
           THEN Reject(p, c, Status400("Token ID is required"))
           ELSE EnterFacade(p, c, tokenId)

\* GET /orders arrives: client.getOrders up to its first await.
GetOrders(p, tokenId) ==
    /\ pc[p] = "idle"
    /\ EnterFacade(p, [route |-> "GET /orders", method |-> "getOrders",
                       body |-> <<>>, tokenId |-> tokenId], tokenId)

\* DELETE /orders/:orderId arrives: the id check, then client.cancelOrder up
\* to its first await.
DeleteOrder(p, orderId) ==
    /\ pc[p] = "idle"
    /\ LET c == [route |-> "DELETE /orders/:orderId", method |-> "cancelOrder",
                 body |-> [orderId |-> orderId], tokenId |-> Undefined]
       IN  IF ~Truthy(orderId)
           THEN Reject(p, c, Status400("Order ID is required"))
           ELSE EnterFacade(p, c, orderId)

\* GET /trades arrives: client.getTrades up to its first await.
GetTrades(p) ==
    /\ pc[p] = "idle"
    /\ EnterFacade(p, [route |-> "GET /trades", method |-> "getTrades",
                       body |-> <<>>, tokenId |-> Undefined], <<>>)

\* The arguments of the remote call of each of these methods.
RemoteArgs(m, params) ==
    CASE m = "getBalance" -> <<"COLLATERAL">>
      [] m = "getTokenBalance" -> <<"CONDITIONAL", params>>
      [] m = "cancelOrder" -> <<params>>
      [] OTHER -> <<>>

\* After ensureInitialized, the method issues its remote call.
ReadIssue(p) ==
    /\ pc[p] = "ready"
    /\ call[p].route \in ReadRoutes
    /\ pc' = [pc EXCEPT ![p] = "reading"]
    /\ remote' = [remote EXCEPT ![p] =
                    Append(@, RemoteCall(FirstRemote(call[p].method),
                                         RemoteArgs(call[p].method, facade[p][1].params)))]
    /\ UNCHANGED <<initialized, deriveCalls, deriveFailures, call, ncalls, gate, server, facade, loc, ret, resp>>

\* getBalance: the first getBalanceAllowance resolved, the second is issued.
BalanceFirst(p) ==
    /\ pc[p] = "reading"
    /\ call[p].method = "getBalance"
    /\ \E r \in BalanceAllowances : loc' = [loc EXCEPT ![p].balance = r]
    /\ pc' = [pc EXCEPT ![p] = "reading2"]
    /\ remote' = [remote EXCEPT ![p] =
                    Append(@, RemoteCall("getBalanceAllowance", <<"COLLATERAL">>))]
    /\ UNCHANGED <<initialized, deriveCalls, deriveFailures, call, ncalls, gate, server, facade, ret, resp>>

\* getBalance: the second getBalanceAllowance resolved, the Balance is
\* returned.
BalanceSecond(p) ==
    /\ pc[p] = "reading2"
    /\ \E r \in BalanceAllowances :
         /\ loc' = [loc EXCEPT ![p].allowance = r]
         /\ Settle(p, Return(BalanceOf(loc[p].balance, r)))
    /\ UNCHANGED <<initialized, deriveCalls, deriveFailures, call, ncalls, gate, server, facade, remote>>

\* getTokenBalance: getBalanceAllowance resolved.
TokenBalanceRead(p) ==
    /\ pc[p] = "reading"
    /\ call[p].method = "getTokenBalance"
    /\ \E r \in BalanceAllowances :
         /\ loc' = [loc EXCEPT ![p].balance = r]
         /\ Settle(p, Return(TokenBalanceOf(call[p].tokenId, r)))
    /\ UNCHANGED <<initialized, deriveCalls, deriveFailures, call, ncalls, gate, server, facade, remote>>

\* getOrders: the remote getOrders resolved with a listing.
OrdersRead(p) ==
    /\ pc[p] = "reading"
    /\ call[p].method = "getOrders"
    /\ \E listing \in Listings :
         /\ loc' = [loc EXCEPT ![p].listing = listing]
         /\ Settle(p, Return(OrdersOf(listing, call[p].tokenId)))
    /\ UNCHANGED <<initialized, deriveCalls, deriveFailures, call, ncalls, gate, server, facade, remote>>

\* getTrades: the remote getTrades resolved.
TradesRead(p) ==
    /\ pc[p] = "reading"
    /\ call[p].method = "getTrades"
    /\ \E trades \in TradeLists : Settle(p, Return(trades))
    /\ UNCHANGED <<initialized, deriveCalls, deriveFailures, call, ncalls, gate, server, facade, remote, loc>>

\* cancelOrder: the remote cancelOrder resolved.
CancelOrderOk(p) ==
    /\ pc[p] = "reading"
    /\ call[p].method = "cancelOrder"
    /\ Settle(p, Return(CancelOrderResult(TRUE, <<>>)))
    /\ UNCHANGED <<initialized, deriveCalls, deriveFailures, call, ncalls, gate, server, facade, remote, loc>>

\* cancelOrder: the remote cancelOrder rejected with e, the catch block
\* returns.
CancelOrderFail(p) ==
    /\ pc[p] = "reading"
    /\ call[p].method = "cancelOrder"
    /\ \E e \in RemoteErrors :
         /\ loc' = [loc EXCEPT ![p].failed = Append(@, e)]
         /\ Settle(p, Return(CancelOrderResult(FALSE, e)))
    /\ UNCHANGED <<initialized, deriveCalls, deriveFailures, call, ncalls, gate, server, facade, remote>>

\* ReadFail with a catch block that issues the failed call once more.
ReadFailRetry(p) ==
    /\ pc[p] \in {"reading", "reading2"}
    /\ call[p].method # "cancelOrder"
    /\ \E e \in RemoteErrors :
         /\ loc' = [loc EXCEPT ![p].failed = Append(@, e)]
         /\ IF loc[p].failed = <<>>
            THEN /\ remote' = [remote EXCEPT ![p] = Append(@, @[Len(@)])]
                 /\ UNCHANGED <<pc, ret, resp>>
            ELSE /\ Settle(p, Throw(StableMessage(call[p].method)))
                 /\ UNCHANGED remote
    /\ UNCHANGED <<initialized, deriveCalls, deriveFailures, call, ncalls, gate, server, facade>>

\* getBalance, getTokenBalance, getOrders, getTrades: the awaited remote call
\* rejected with e, the catch block throws the method's message.
ReadFail(p) ==
    /\ pc[p] \in {"reading", "reading2"}
    /\ call[p].method # "cancelOrder"
    /\ \E e \in RemoteErrors :
         /\ loc' = [loc EXCEPT ![p].failed = Append(@, e)]
         /\ Settle(p, Throw(StableMessage(call[p].method)))
    /\ UNCHANGED <<initialized, deriveCalls, deriveFailures, call, ncalls, gate, server, facade, remote>>

\* ------------------------------------------------------------------------
\* GET /markets and PolymarketClient.getMarkets
\* ------------------------------------------------------------------------
JsBool(b) == [t |-> "bool", n |-> IF b THEN Fin(Scale) ELSE Fin(0), s |-> <<>>]

\* What req.query.active, .closed and .archived are: absent, "true", "false".
QueryFlags == {Undefined, JsStr(<<"t", "r", "u", "e">>), JsStr(<<"f", "a", "l", "s", "e">>)}

\* What req.query.limit is: absent or a string.
QueryLimits == {Undefined, JsStr(<<"0">>), JsStr(<<"1", "0">>), JsStr(<<"7", "x">>)}

MarketsQueries ==
    [active : QueryFlags, closed : QueryFlags, archived : QueryFlags, limit : QueryLimits]

\* parseInt(s): the integer prefix after leading white space and a sign, NaN
\* when there is no digit.
ParseInt(s) ==
    LET i == SkipSpace(s, 1)
        neg == i <= Len(s) /\ s[i] = "-"
        a == IF i <= Len(s) /\ s[i] \in {"-", "+"} THEN i + 1 ELSE i
        b == ScanDigits(s, a)
        mag == DigitsVal(s, a, b) * Scale
    IN  IF b = a THEN NaN ELSE Fin(IF neg THEN 0 - mag ELSE mag)

\* The params the handler of GET /markets builds from the query.
MarketsParams(q) ==
    [active |-> JsBool(q.active = JsStr(<<"t", "r", "u", "e">>)),
     closed |-> JsBool(q.closed = JsStr(<<"t", "r", "u", "e">>)),
     archived |-> JsBool(q.archived = JsStr(<<"f", "a", "l", "s", "e">>)),
     limit |-> [t |-> "num", s |-> <<>>,
                n |-> IF Truthy(q.limit) THEN ParseInt(ToStr(q.limit)) ELSE Fin(50 * Scale)]]

\* The entries getMarkets sets in its URLSearchParams, in order.
MarketsUrlQuery(params) ==
    LET entry(name, x, set) == IF set THEN <<[name |-> name, value |-> ToStr(x)]>> ELSE <<>>
    IN  entry("active", params.active, params.active # Undefined)
          \o entry("closed", params.closed, params.closed # Undefined)
          \o entry("archived", params.archived, params.archived # Undefined)
          \o entry("limit", params.limit, Truthy(params.limit))

Markets == {"market-a", "market-b"}

\* The arrays the Gamma API answers with.
MarketLists == SeqsUpTo(Markets, MaxItems)

\* GET /markets arrives: the params are built, and getMarkets (which does not
\* call ensureInitialized) issues its fetch.
GetMarkets(p, q) ==
    /\ pc[p] = "idle"
    /\ call' = [call EXCEPT ![p] = [route |-> "GET /markets", method |-> "getMarkets",
                                    body |-> q, tokenId |-> Undefined]]
    /\ ncalls' = ncalls + 1
    /\ UNCHANGED <<gate, server>>
    /\ facade' = [facade EXCEPT ![p] = <<[method |-> "getMarkets", params |-> MarketsParams(q)]>>]
    /\ remote' = [remote EXCEPT ![p] = <<RemoteCall("fetch", MarketsUrlQuery(MarketsParams(q)))>>]
    /\ pc' = [pc EXCEPT ![p] = "requesting"]
    /\ loc' = [loc EXCEPT ![p] = NoLoc]
    /\ ret' = [ret EXCEPT ![p] = NoRet]
    /\ resp' = [resp EXCEPT ![p] = NoResp]
    /\ UNCHANGED <<initialized, deriveCalls, deriveFailures>>

\* fetch resolved with a response: not ok, the Error thrown in the try block
\* is caught and replaced; ok, response.json() is awaited.
MarketsFetched(p) ==
    /\ pc[p] = "requesting"
    /\ \E ok \in BOOLEAN :
         IF ok
         THEN /\ pc' = [pc EXCEPT ![p] = "parsing"]
              /\ remote' = [remote EXCEPT ![p] = Append(@, RemoteCall("json", <<>>))]
              /\ UNCHANGED <<loc, ret, resp>>
         ELSE /\ loc' = [loc EXCEPT ![p].failed =
                            Append(@, [kind |-> "rejected", message |-> "Not Found"])]
              /\ Settle(p, Throw(StableMessage("getMarkets")))
              /\ UNCHANGED remote
    /\ UNCHANGED <<initialized, deriveCalls, deriveFailures, call, ncalls, gate, server, facade>>

\* response.json() resolved with the markets.
MarketsParsed(p) ==
    /\ pc[p] = "parsing"
    /\ \E markets \in MarketLists : Settle(p, Return(markets))
    /\ UNCHANGED <<initialized, deriveCalls, deriveFailures, call, ncalls, gate, server, facade, remote, loc>>

\* fetch or response.json() rejected with e.
MarketsFail(p) ==
    /\ pc[p] \in {"requesting", "parsing"}
    /\ \E e \in RemoteErrors :
         /\ loc' = [loc EXCEPT ![p].failed = Append(@, e)]
         /\ Settle(p, Throw(StableMessage("getMarkets")))
    /\ UNCHANGED <<initialized, deriveCalls, deriveFailures, call, ncalls, gate, server, facade, remote>>

\* ------------------------------------------------------------------------
\* The two routers: one request of any route
\* ------------------------------------------------------------------------
\* One request of a route other than POST /orders, DELETE /orders and the
\* order book routes.
NextRead ==
    \/ GetBalance(Client)
    \/ \E tokenId \in PathTokens : GetTokenBalance(Client, tokenId)
    \/ \E tokenId \in TokenFilters : GetOrders(Client, tokenId)
    \/ \E orderId \in PathOrderIds : DeleteOrder(Client, orderId)
    \/ GetTrades(Client)
    \/ \E q \in MarketsQueries : GetMarkets(Client, q)
    \/ DeriveOk(Client)
    \/ DeriveFail(Client)
    \/ ReadIssue(Client)
    \/ BalanceFirst(Client)
    \/ BalanceSecond(Client)
    \/ TokenBalanceRead(Client)
    \/ OrdersRead(Client)
    \/ TradesRead(Client)
    \/ CancelOrderOk(Client)
    \/ CancelOrderFail(Client)
    \/ ReadFail(Client)
    \/ MarketsFetched(Client)
    \/ MarketsParsed(Client)
    \/ MarketsFail(Client)

SpecRead == InitRoutes /\ [][NextRead]_vars

\* The steps of the handlers and of the Facade methods after a request
\* arrived and the Facade is initialized.
HandlerSteps ==
    \/ CreateOrderSign(Client)
    \/ CreateOrderSigned(Client)
    \/ PostOrderOk(Client)
    \/ CreateOrderFail(Client)
    \/ CancelAllList(Client)
    \/ CancelAllListed(Client)
    \/ CancelAllListFail(Client)
    \/ CancelSettled(Client)
    \/ BookFetch(Client)
    \/ BookFetched(Client)
    \/ BookFail(Client)
    \/ ReadIssue(Client)
    \/ BalanceFirst(Client)
    \/ BalanceSecond(Client)
    \/ TokenBalanceRead(Client)
    \/ OrdersRead(Client)
    \/ TradesRead(Client)
    \/ CancelOrderOk(Client)
    \/ CancelOrderFail(Client)
    \/ ReadFail(Client)
    \/ MarketsFetched(Client)
    \/ MarketsParsed(Client)
    \/ MarketsFail(Client)

\* One request of any route of the two routers.
NextGateway ==
    \/ /\ pc[Client] = "idle"
       /\ \/ \E b \in OrderBodies : PostOrders(Client, b)
          \/ \E tokenId \in TokenFilters : DeleteOrders(Client, tokenId)
          \/ \E route \in BookRoutes, tokenId \in PathTokens : GetBook(Client, route, tokenId)
          \/ GetBalance(Client)
          \/ \E tokenId \in PathTokens : GetTokenBalance(Client, tokenId)
          \/ \E tokenId \in TokenFilters : GetOrders(Client, tokenId)
          \/ \E orderId \in PathOrderIds : DeleteOrder(Client, orderId)
          \/ GetTrades(Client)
          \/ \E q \in MarketsQueries : GetMarkets(Client, q)
    \/ DeriveOk(Client)
    \/ DeriveFail(Client)
    \/ HandlerSteps

SpecGateway == InitRoutes /\ [][NextGateway]_vars

\* The steps a request that has arrived goes on with: a remote call it awaits
\* resolves or rejects, and the continuation runs.
Progress == DeriveOk(Client) \/ DeriveFail(Client) \/ HandlerSteps

\* One request of any route, where every remote call eventually returns or
\* fails.
SpecGatewayFair == SpecGateway /\ WF_vars(Progress)

\* ------------------------------------------------------------------------
\* The main server: the middleware stack of index.ts
\* ------------------------------------------------------------------------
\* Stack with the payment middleware registered after the routers.
StackRoutersFirst ==
    <<"cors", "express.json", "GET /", "GET /health", "marketRoutes",
      "tradingRoutes", "paymentMiddleware">>

\* The middleware and routes of the app, in the order they are registered.
Stack ==
    <<"cors", "express.json", "GET /", "GET /health", "paymentMiddleware",
      "marketRoutes", "tradingRoutes">>

\* The keys of the price table given to paymentMiddleware.
PriceTable ==
    {[verb |-> "GET", pattern |-> <<"markets">>],
     [verb |-> "GET", pattern |-> <<"markets", "*", "orderbook">>],
     [verb |-> "GET", pattern |-> <<"markets", "*", "quote">>],
     [verb |-> "GET", pattern |-> <<"balance">>],
     [verb |-> "GET", pattern |-> <<"balance", "*">>],
     [verb |-> "POST", pattern |-> <<"orders">>],
     [verb |-> "GET", pattern |-> <<"orders">>],
     [verb |-> "DELETE", pattern |-> <<"orders", "*">>],
     [verb |-> "DELETE", pattern |-> <<"orders">>],
     [verb |-> "GET", pattern |-> <<"trades">>]}

\* The routes createMarketRoutes registers.
MarketRouteTable ==
    {[name |-> "GET /markets", verb |-> "GET", pattern |-> <<"markets">>],
     [name |-> "GET /markets/:tokenId/orderbook", verb |-> "GET",
      pattern |-> <<"markets", ":tokenId", "orderbook">>],
     [name |-> "GET /markets/:tokenId/quote", verb |-> "GET",
      pattern |-> <<"markets", ":tokenId", "quote">>]}

\* The routes createTradingRoutes registers.
TradingRouteTable ==
    {[name |-> "GET /balance", verb |-> "GET", pattern |-> <<"balance">>],
     [name |-> "GET /balance/:tokenId", verb |-> "GET", pattern |-> <<"balance", ":tokenId">>],
     [name |-> "POST /orders", verb |-> "POST", pattern |-> <<"orders">>],
     [name |-> "GET /orders", verb |-> "GET", pattern |-> <<"orders">>],
     [name |-> "DELETE /orders/:orderId", verb |-> "DELETE", pattern |-> <<"orders", ":orderId">>],
     [name |-> "DELETE /orders", verb |-> "DELETE", pattern |-> <<"orders">>],
     [name |-> "GET /trades", verb |-> "GET", pattern |-> <<"trades">>]}

\* A segment of a pattern that stands for any one segment of a path.
Wildcards == {"*", ":tokenId", ":orderId"}

\* The path has the segments of the pattern, any segment for a wildcard.
Matches(pattern, path) ==
    /\ Len(pattern) = Len(path)
    /\ \A k \in DOMAIN pattern : pattern[k] \in Wildcards \/ pattern[k] = path[k]

\* The requests that arrive: a verb, a path (its segments) and a payment
\* proof header that is absent, invalid or valid.
Verbs == {"GET", "POST", "DELETE"}
Paths ==
    {<<>>, <<"health">>, <<"markets">>, <<"markets", "123", "orderbook">>,
     <<"markets", "123", "quote">>, <<"balance">>, <<"balance", "123">>, <<"orders">>,
     <<"orders", "0x1">>, <<"trades">>, <<"unknown">>}
Proofs == {"none", "invalid", "valid"}

\* The request has an entry in the price table.
Priced(g) == \E e \in PriceTable : e.verb = g.verb /\ Matches(e.pattern, g.path)

\* The name of the route of the table that handles the request, "none" when
\* there is none.
RouteOf(table, g) ==
    IF \E r \in table : r.verb = g.verb /\ Matches(r.pattern, g.path)
    THEN (CHOOSE r \in table : r.verb = g.verb /\ Matches(r.pattern, g.path)).name
    ELSE "none"

\* The stage of the stack the request of p is at ("none": no request, or the
\* stack is exhausted).
StageOf(p) == IF gate[p].at \in DOMAIN Stack THEN Stack[gate[p].at] ELSE "none"

\* The stage the request of p is at calls next().
PassOn(p) ==
    gate' = [gate EXCEPT ![p].at = @ + 1,
                         ![p].trail = Append(@, [stage |-> StageOf(p), out |-> "next"])]

\* The stage the request of p is at, or the end of the stack, sends the
\* response.
AnswerBy(p, stage, response) ==
    /\ gate' = [gate EXCEPT ![p].trail = Append(@, [stage |-> stage, out |-> "answered"])]
    /\ resp' = [resp EXCEPT ![p] = response]
    /\ pc' = [pc EXCEPT ![p] = "done"]
    /\ UNCHANGED <<initialized, deriveCalls, deriveFailures, call, ncalls, facade, remote, loc,
                   ret, server>>

Untouched ==
    <<initialized, deriveCalls, deriveFailures, pc, call, ncalls, facade, remote, loc, ret,
      resp, server>>

\* A request arrives at the app.
Receive(p, verb, path, proof) ==
    /\ server = "listening"
    /\ pc[p] = "idle"
    /\ gate[p] = NoGate
    /\ gate' = [gate EXCEPT ![p] = [verb |-> verb, path |-> path, proof |-> proof,
                                    at |-> 1, trail |-> <<>>]]
    /\ UNCHANGED Untouched

\* cors() and express.json() pass the request on.
Transport(p) ==
    /\ pc[p] = "idle"
    /\ StageOf(p) \in {"cors", "express.json"}
    /\ PassOn(p)
    /\ UNCHANGED Untouched

\* app.get('/'): the welcome document for GET /, next() for any other request.
Welcome(p) ==
    /\ pc[p] = "idle"
    /\ StageOf(p) = "GET /"
    /\ IF gate[p].verb = "GET" /\ gate[p].path = <<>>
       THEN AnswerBy(p, "GET /", [status |-> 200, body |-> [name |-> "FlowPay"]])
       ELSE PassOn(p) /\ UNCHANGED Untouched

\* app.get('/health').
Health(p) ==
    /\ pc[p] = "idle"
    /\ StageOf(p) = "GET /health"
    /\ IF gate[p].verb = "GET" /\ gate[p].path = <<"health">>
       THEN AnswerBy(p, "GET /health", [status |-> 200, body |-> [status |-> "healthy"]])
       ELSE PassOn(p) /\ UNCHANGED Untouched

\* paymentMiddleware: a request with an entry in the price table is passed
\* on only with a valid payment proof and is answered 402 otherwise; a
\* request without an entry is passed on.
PaymentGate(p) ==
    /\ pc[p] = "idle"
    /\ StageOf(p) = "paymentMiddleware"
    /\ IF Priced(gate[p]) /\ gate[p].proof # "valid"
       THEN AnswerBy(p, "paymentMiddleware",
                     [status |-> 402, body |-> [error |-> "Payment required"]])
       ELSE PassOn(p) /\ UNCHANGED Untouched

\* The handler of the route named `route` starts for the request of p.
Handle(p, route) ==
    CASE route = "GET /markets" -> \E q \in MarketsQueries : GetMarkets(p, q)
      [] route \in BookRoutes -> \E tokenId \in PathTokens : GetBook(p, route, tokenId)
      [] route = "GET /balance" -> GetBalance(p)
      [] route = "GET /balance/:tokenId" -> \E tokenId \in PathTokens : GetTokenBalance(p, tokenId)
      [] route = "POST /orders" -> \E b \in OrderBodies : PostOrders(p, b)
      [] route = "GET /orders" -> \E tokenId \in TokenFilters : GetOrders(p, tokenId)
      [] route = "DELETE /orders/:orderId" -> \E orderId \in PathOrderIds : DeleteOrder(p, orderId)
      [] route = "DELETE /orders" -> \E tokenId \in TokenFilters : DeleteOrders(p, tokenId)
      [] route = "GET /trades" -> GetTrades(p)

\* app.use(createMarketRoutes(...)): the handler of the matching route, or
\* next().
MarketRoutes(p) ==
    /\ pc[p] = "idle"
    /\ StageOf(p) = "marketRoutes"
    /\ IF RouteOf(MarketRouteTable, gate[p]) # "none"
       THEN Handle(p, RouteOf(MarketRouteTable, gate[p]))
       ELSE PassOn(p) /\ UNCHANGED Untouched

\* app.use(createTradingRoutes(...)).
TradingRoutes(p) ==
    /\ pc[p] = "idle"
    /\ StageOf(p) = "tradingRoutes"
    /\ IF RouteOf(TradingRouteTable, gate[p]) # "none"
       THEN Handle(p, RouteOf(TradingRouteTable, gate[p]))
       ELSE PassOn(p) /\ UNCHANGED Untouched

\* No stage answered: the request leaves the stack with a 404.
NotFound(p) ==
    /\ pc[p] = "idle"
    /\ gate[p].at = Len(Stack) + 1
    /\ AnswerBy(p, "none", [status |-> 404, body |-> <<>>])

\* The server listens after "await polymarketClient.initialize()" returned.
InitServer ==
    /\ initialized = TRUE
    /\ deriveCalls = 1
    /\ server = "listening"
    /\ InitState

\* One request to the main server.
NextServer ==
    \/ \E verb \in Verbs, path \in Paths, proof \in Proofs : Receive(Client, verb, path, proof)
    \/ Transport(Client)
    \/ Welcome(Client)
    \/ Health(Client)
    \/ PaymentGate(Client)
    \/ MarketRoutes(Client)
    \/ TradingRoutes(Client)
    \/ NotFound(Client)
    \/ HandlerSteps

SpecServer == InitServer /\ [][NextServer]_vars

\* ------------------------------------------------------------------------
\* The main server: startup (the module body of index.ts)
\* ------------------------------------------------------------------------
\* The caller that evaluates the module body of index.ts.
Main == CHOOSE p \in Procs : p # Client

\* The module body up to its top-level await: the app and the Facade are
\* constructed and initialize() is called.
Startup ==
    /\ server = "starting"
    /\ pc[Main] = "idle"
    /\ EnterFacade(Main, [NoCall EXCEPT !.method = "initialize"], <<>>)

\* Startup with app.listen moved above "await polymarketClient.initialize()".
ListenEarly ==
    /\ server = "starting"
    /\ pc[Main] \in {"deriving", "returning"}
    /\ server' = "listening"
    /\ UNCHANGED <<initialized, deriveCalls, deriveFailures, pc, call, ncalls, facade, remote,
                   loc, ret, resp, gate>>

\* initialize() returned: the rest of the module body runs, registering the
\* free endpoints, the payment middleware and the routers, and app.listen
\* starts the listener.
Listen ==
    /\ server = "starting"
    /\ pc[Main] = "returning"
    /\ Settle(Main, Return(<<>>))
    /\ server' = "listening"
    /\ UNCHANGED <<initialized, deriveCalls, deriveFailures, call, ncalls, facade, remote, loc,
                   gate>>

\* initialize() threw: the top-level await rejects, the rest of the module
\* body never runs and the process ends.
Abort ==
    /\ server = "starting"
    /\ pc[Main] = "done"
    /\ ret[Main].kind = "throw"
    /\ server' = "exited"
    /\ UNCHANGED <<initialized, deriveCalls, deriveFailures, pc, call, ncalls, facade, remote,
                   loc, ret, resp, gate>>

\* The process is started: nothing of the module body has run.
InitStartup ==
    /\ initialized = FALSE
    /\ deriveCalls = 0
    /\ server = "starting"
    /\ InitState

\* The main server from the start of its process, and one request to it.
NextStartup ==
    \/ Startup
    \/ DeriveOk(Main)
    \/ DeriveFail(Main)
    \/ Listen
    \/ Abort
    \/ NextServer

SpecStartup == InitStartup /\ [][NextStartup]_vars

\* ------------------------------------------------------------------------
\* Claims
\* ------------------------------------------------------------------------
\* The callers whose current call is waiting for its own deriveApiKey call.
Deriving == {p \in Procs : pc[p] = "deriving"}

\* C1: when two or more calls of credentialed methods that started on the
\* uninitialized Facade are waiting for initialization together, and no
\* derivation has failed, deriveApiKey has been invoked exactly once in total.
C1_SingleDerivation ==
    (/\ Cardinality({p \in Deriving : call[p].method \in CredentialedMethods}) >= 2
     /\ deriveFailures = 0)
        => deriveCalls = 1

\* The requests that reached the POST /orders handler.
OrderRequests == {p \in Procs : call[p].route = "POST /orders"}

\* The decimal a body value denotes (a number, or a string that is a decimal
\* literal), as a set: empty when it denotes none.
Denoted(x) ==
    IF x.t = "num" /\ IsFin(x.n) THEN {x.n.v}
    ELSE IF x.t = "str" /\ Len(x.s) > 0 /\ IsFin(StringToNumber(x.s))
    THEN {StringToNumber(x.s).v}
    ELSE {}

\* The bodies C2 is about: a field is missing, the side is neither BUY nor
\* SELL, the price is <= 0 or >= 1, or the size is <= 0.
BadOrderBody(b) ==
    \/ \E f \in {"tokenId", "price", "size", "side"} : b[f] = Undefined
    \/ b.side \notin {JsStr(BUY), JsStr(SELL)}
    \/ \E d \in Denoted(b.price) : d <= 0 \/ d >= Scale
    \/ \E d \in Denoted(b.size) : d <= 0

\* C2: a POST /orders whose body misses a field, has a side other than BUY
\* and SELL, a price <= 0 or >= 1, or a size <= 0 is answered 400 with
\* success=false and an error, and invokes no Facade method and no remote call.
C2_InvalidOrderRejected ==
    \A p \in OrderRequests :
        BadOrderBody(call[p].body) =>
            /\ resp[p].status = 400
            /\ resp[p].body.success = FALSE
            /\ resp[p].body.error # ""
            /\ facade[p] = <<>>
            /\ remote[p] = <<>>
            /\ ret[p] = NoRet

\* A request with price 1 (the upper end of the open interval) was rejected.
C2_Witness ==
    \E p \in OrderRequests :
        /\ call[p].body.price = JsNum(Scale)
        /\ call[p].body.tokenId = JsStr(<<"T">>)
        /\ call[p].body.size = JsNum(10 * Scale)
        /\ call[p].body.side = JsStr(BUY)
        /\ resp[p].status = 400

\* C3: every OrderParams the Router passes to createOrder has 0 < price < 1,
\* size > 0 and side BUY or SELL, whatever the JSON body.
C3_OrderParamsValid ==
    \A p \in OrderRequests :
        \A i \in DOMAIN facade[p] :
            LET q == facade[p][i].params
            IN  /\ IsFin(q.price) /\ q.price.v > 0 /\ q.price.v < Scale
                /\ IsFin(q.size) /\ q.size.v > 0
                /\ q.side \in {JsStr(BUY), JsStr(SELL)}

\* The requests whose remote createOrder or postOrder failed.
OrderFailed == {p \in OrderRequests : loc[p].failed # <<>>}

\* C4: when the remote createOrder or postOrder fails, createOrder does not
\* throw: it returns orderId "", success=false and a non-empty message.
C4_RejectionReturned ==
    \A p \in OrderFailed :
        /\ ret[p].kind = "return"
        /\ ret[p].val.orderId = ""
        /\ ret[p].val.success = FALSE
        /\ ret[p].val.message # ""

\* postOrder failed with an Error whose message is empty, on a Facade that
\* was initialized when the request arrived.
C4_Witness ==
    \E p \in OrderFailed :
        /\ loc[p].failed[1].message = ""
        /\ Len(remote[p]) = 2
        /\ remote[p][2].name = "postOrder"
        /\ ret[p].kind = "return"

\* C5: a transport failure of the remote call is raised by createOrder (and
\* POST /orders answers 500); only a rejection is returned as success=false.
C5_TransportRaised ==
    \A p \in OrderFailed :
        IF loc[p].failed[1].kind = "transport"
        THEN ret[p].kind = "throw" /\ resp[p].status = 500
        ELSE ret[p].kind = "return" /\ ret[p].val.success = FALSE

\* C6: when createOrder returns r, POST /orders answers 200 with
\* {success: r.success, order: r}.
C6_ResultVerbatim ==
    \A p \in OrderRequests :
        ret[p].kind = "return" =>
            resp[p] = [status |-> 200,
                       body |-> [success |-> ret[p].val.success, order |-> ret[p].val]]

\* createOrder returned success=false and the response is 200 with it.
C6_Witness ==
    \E p \in OrderRequests :
        /\ ret[p].kind = "return"
        /\ ret[p].val.success = FALSE
        /\ resp[p].status = 200
        /\ resp[p].body.success = FALSE

\* The requests that reached the DELETE /orders handler.
CancelRequests == {p \in Procs : call[p].route = "DELETE /orders"}

\* The requests of CancelRequests whose listing was fetched.
Listed ==
    {p \in CancelRequests :
        /\ \E k \in DOMAIN remote[p] : remote[p][k].name = "getOrders"
        /\ pc[p] # "listing"
        /\ loc[p].failed = <<>>}

\* The identifiers of a sequence of orders, in order.
Ids(orders) == [k \in 1 .. Len(orders) |-> orders[k].id]

\* The order identifiers p issued a remote cancelOrder for, in order.
CancelCalls(p) ==
    LET cs == SelectSeq(remote[p], LAMBDA c : c.name = "cancelOrder")
    IN  [k \in 1 .. Len(cs) |-> cs[k].arg]

\* The number of cancellations of p that succeeded.
Succeeded(p) == Cardinality({k \in DOMAIN loc[p].outcomes : loc[p].outcomes[k]})

\* C7: cancelAllOrders issues one cancelOrder for each order it selected, in
\* order and also after a cancellation failed; it never throws for a failed
\* cancellation; and it returns success=true with cancelledCount the number
\* of cancellations that succeeded.
C7_CancelAllCounts ==
    \A p \in Listed :
        /\ CancelCalls(p) = Ids(SubSeq(loc[p].orders, 1, loc[p].i))
        /\ ret[p].kind # "throw"
        /\ pc[p] = "done" =>
              /\ CancelCalls(p) = Ids(loc[p].orders)
              /\ Len(loc[p].outcomes) = Len(loc[p].orders)
              /\ ret[p] = Return([success |-> TRUE, cancelledCount |-> Succeeded(p)])

\* The first cancellation failed, a later one succeeded, and the call ended.
C7_Witness ==
    \E p \in Listed :
        /\ pc[p] = "done"
        /\ Len(loc[p].outcomes) = MaxOrders
        /\ loc[p].outcomes[1] = FALSE
        /\ loc[p].outcomes[2] = TRUE
        /\ ret[p].val.cancelledCount < MaxOrders

\* The orders of a listing whose asset identifier is tokenId, in order.
Matching(listing, tokenId) == SelectSeq(listing, LAMBDA o : o.asset_id = tokenId)

BookReturned ==
    {p \in Procs : call[p].method = "getOrderBook" /\ call[p].route \in BookRoutes
                     /\ ret[p].kind = "return"}

\* The prices (in thousandths) the levels of one side of a remote book denote.
PriceSet(levels) == {ParseFloatStr(levels[k].price).v : k \in DOMAIN levels}

Greatest(S) == CHOOSE x \in S : \A y \in S : y <= x
Least(S) == CHOOSE x \in S : \A y \in S : x <= y

Quoted ==
    {p \in Procs : call[p].route = "GET /markets/:tokenId/quote" /\ resp[p].status = 200}

NonFiniteStrs == {NumToStr(NaN), NumToStr(PosInf), NumToStr(NegInf)}

\* C10: for an order book with bestBid = 0 the quote route does not raise
\* (it answers with a quote whenever getOrderBook returned) and its
\* spreadPercentage is none of "NaN", "Infinity" and "-Infinity".
C10_QuoteGuardsZeroBid ==
    \A p \in BookReturned :
        (call[p].route = "GET /markets/:tokenId/quote" /\ ret[p].val.bestBid = Fin(0)) =>
            /\ p \in Quoted
            /\ resp[p].body.quote.spreadPercentage \notin NonFiniteStrs

\* The quote requests answered with a quote for a book whose bestBid is > 0.
QuotedPositive == {p \in Quoted : ret[p].val.bestBid.v > 0}

\* The book of the scenario: bids [(0.97, 10)], asks [(0.975, 5)].
ScenarioBook ==
    [bids |-> <<[price |-> <<"0", ".", "9", "7">>, size |-> <<"1", "0">>]>>,
     asks |-> <<[price |-> <<"0", ".", "9", "7", "5">>, size |-> <<"5">>]>>]

\* The percentage a / b * 100 (of decimals in thousandths) in thousandths,
\* rounded to the nearest, a tie away from zero.
RoundedPercent(a, b) ==
    LET n == (IF a < 0 THEN 0 - a ELSE a) * 100 * Scale
        m == (2 * n + b) \div (2 * b)
    IN  IF a < 0 THEN 0 - m ELSE m

\* The quote carries the token of the request and the bestBid, bestAsk and
\* spread of the MarketData of the one getOrderBook call of the request, and
\* spreadPercentage is spread / bestBid * 100 with three decimals.
QuoteFromSnapshot(p) ==
    LET q == resp[p].body.quote
        md == ret[p].val
        pct == ParseFloatStr(q.spreadPercentage)
    IN  /\ Len(SelectSeq(remote[p], LAMBDA c : c.name = "getOrderBook")) = 1
        /\ q.tokenId = call[p].tokenId
        /\ q.bestBid = md.bestBid
        /\ q.bestAsk = md.bestAsk
        /\ q.spread = md.spread
        /\ pct.v = RoundedPercent(md.spread.v, md.bestBid.v)
        /\ Len(q.spreadPercentage) - ScanDigits(q.spreadPercentage,
                                                 IF md.spread.v < 0 THEN 2 ELSE 1) = 3

\* C11: for bestBid > 0 the quote carries the requested tokenId, the
\* bestBid, bestAsk and spread of the snapshot of that request, and
\* spreadPercentage = spread / bestBid * 100 with three decimals; for bids
\* [(0.97, 10)] and asks [(0.975, 5)] it is bestBid 0.97, bestAsk 0.975,
\* spread 0.005 and spreadPercentage "0.515".
C11_QuoteScenario ==
    \A p \in QuotedPositive :
        /\ QuoteFromSnapshot(p)
        /\ loc[p].book = ScenarioBook =>
              LET q == resp[p].body.quote
              IN  /\ q.bestBid = Fin(970)
                  /\ q.bestAsk = Fin(975)
                  /\ q.spread = Fin(5)
                  /\ q.spreadPercentage = <<"0", ".", "5", "1", "5">>

\* The callers whose current call began: it took one step of the Facade.
Started(p) == pc[p] # "idle"

\* C12: once the flag is set by a successful initialize(), a call of
\* initialize(), direct or through ensureInitialized, issues no deriveApiKey
\* and leaves the flag as it is: a new call goes straight on (initialize()
\* to its return, a credentialed method to its first remote call), and a
\* direct initialize() returns normally having made no remote call.
C12_InitializeIdempotent ==
    /\ [][initialized =>
            /\ initialized'
            /\ deriveCalls' = deriveCalls
            /\ \A p \in Procs :
                 (pc[p] \in {"idle", "done"} /\ pc'[p] # pc[p]) =>
                    /\ remote'[p] = <<>>
                    /\ pc'[p] = IF call'[p].method = "initialize" THEN "returning" ELSE "ready"]_vars
    /\ [](\A p \in Procs :
            (pc[p] = "done" /\ call[p].method = "initialize" /\ ret[p].kind = "return") =>
               /\ initialized
               /\ remote[p] \in {<<>>, <<RemoteCall("deriveApiKey", <<>>)>>})

\* A direct initialize() that was called with the flag set has returned.
C12_Witness ==
    \E p \in Procs :
        /\ initialized
        /\ call[p].method = "initialize"
        /\ pc[p] = "done"
        /\ ret[p] = Return(<<>>)
        /\ remote[p] = <<>>

\* C13: the flag starts false; a step sets it only when a deriveApiKey call
\* resolved (not one that failed); and no step, a failing derivation or a
\* failing operation included, takes it back to false.
C13_FlagOneWay ==
    /\ ~initialized
    /\ [][/\ initialized => initialized'
          /\ (~initialized /\ initialized') =>
                /\ deriveFailures' = deriveFailures
                /\ \E p \in Procs :
                     /\ pc[p] = "deriving"
                     /\ pc'[p] \in {"returning", "ready"}
                     /\ ret'[p].kind # "throw"]_vars

\* The flag is set, a derivation failed and an operation that ran with the
\* flag set failed.
C13_Witness ==
    /\ initialized
    /\ deriveFailures > 0
    /\ \E p \in Procs : ret[p].kind = "throw" /\ ret[p].val.message # InitError

\* C14: every remote call other than deriveApiKey is issued with the flag
\* set, by a call that went through ensureInitialized; a call whose
\* deriveApiKey failed throws the initialization error and has issued no
\* other remote call.
C14_NoCallUninitialized ==
    /\ [][\A p \in Procs :
            /\ (/\ remote'[p] # remote[p]
                /\ remote'[p] # <<>>
                /\ remote'[p][Len(remote'[p])].name # "deriveApiKey") =>
                  initialized /\ pc[p] = "ready"
            /\ (pc[p] = "deriving" /\ deriveFailures' # deriveFailures /\ pc'[p] # pc[p]) =>
                  /\ ret'[p] = Throw(InitError)
                  /\ remote'[p] = <<RemoteCall("deriveApiKey", <<>>)>>
                  /\ pc'[p] = "done"]_vars
    /\ [](\A p \in Procs :
            /\ (\E i \in 1 .. Len(remote[p]) : remote[p][i].name # "deriveApiKey") => initialized
            /\ ret[p] = Throw(InitError) => remote[p] = <<RemoteCall("deriveApiKey", <<>>)>>)

\* A credentialed method threw the initialization error, and another issued
\* its remote call after a derivation of its own.
C14_Witness ==
    \E p, q \in Procs :
        /\ ret[p] = Throw(InitError)
        /\ call[p].method \in CredentialedMethods
        /\ Len(remote[q]) = 2
        /\ remote[q][1].name = "deriveApiKey"

\* The number of remote calls named n that the current call of p issued.
Issued(p, n) == Cardinality({k \in DOMAIN remote[p] : remote[p][k].name = n})

\* The current call of p reported a failure to its caller: it threw, or it
\* returned a result with success=false.
ReportedFailure(p) ==
    IF ret[p].kind = "throw" THEN TRUE
    ELSE /\ ret[p].kind = "return"
         /\ call[p].method \in {"createOrder", "cancelOrder", "cancelAllOrders"}
         /\ ret[p].val.success = FALSE

\* C15: no remote call is retried.  A remote call that failed ended its
\* operation, which reported the failure; no operation issues a remote call
\* twice, except getBalance, whose second getBalanceAllowance follows a first
\* one that resolved, and cancelAllOrders, which issues one cancelOrder per
\* selected order, none a second time, whatever the outcomes.
C15_NoRetries ==
    \A p \in Procs :
        /\ Len(loc[p].failed) <= 1
        /\ loc[p].failed # <<>> => pc[p] = "done" /\ ReportedFailure(p)
        /\ ret[p] = Throw(InitError) => remote[p] = <<RemoteCall("deriveApiKey", <<>>)>>
        /\ \A n \in {"deriveApiKey", "createOrder", "postOrder", "getOrders", "getOrderBook",
                     "getTrades", "fetch", "json"} : Issued(p, n) <= 1
        /\ Issued(p, "getBalanceAllowance") <=
              (IF call[p].method = "getBalance" /\ loc[p].balance \in BalanceAllowances
               THEN 2 ELSE 1)
        /\ \A j, k \in DOMAIN CancelCalls(p) : j # k => CancelCalls(p)[j] # CancelCalls(p)[k]
        /\ call[p].method = "cancelAllOrders" =>
              /\ Len(CancelCalls(p)) = Len(loc[p].outcomes) + (IF pc[p] = "cancelling" THEN 1 ELSE 0)
              /\ Len(CancelCalls(p)) <= Len(loc[p].orders)
              /\ CancelCalls(p) = Ids(SubSeq(loc[p].orders, 1, Len(CancelCalls(p))))

\* The second getBalanceAllowance of a getBalance failed: the operation threw
\* after two remote calls of that name and one failure.
C15_Witness ==
    \E p \in Procs :
        /\ call[p].method = "getBalance"
        /\ loc[p].balance \in BalanceAllowances
        /\ Len(loc[p].failed) = 1
        /\ Issued(p, "getBalanceAllowance") = 2
        /\ ret[p] = Throw("Failed to fetch balance")

\* The operations whose catch block throws a message of its own.
Normalized ==
    {"getBalance", "getTokenBalance", "getOrderBook", "getOrders", "getTrades", "getMarkets"}

\* The response of a route to a failure of its Facade call with message msg.
FailureResponse(msg) == [status |-> 500, body |-> [success |-> FALSE, error |-> msg]]

\* C16: when the remote call of getBalance, getTokenBalance, getOrderBook,
\* getOrders, getTrades or getMarkets fails, the method throws the message of
\* that method and the route answers 500 with that message, whatever the
\* remote error is: the response is a function of the method alone.
C16_StableErrors ==
    \A p \in Procs :
        (call[p].method \in Normalized /\ loc[p].failed # <<>>) =>
            /\ ret[p].kind = "throw"
            /\ ret[p].val.message \in
                  {"Failed to fetch balance", "Failed to fetch token balance",
                   "Failed to fetch order book", "Failed to fetch orders",
                   "Failed to fetch trades", "Failed to fetch markets"}
            /\ ret[p].val.message = StableMessage(call[p].method)
            /\ \A e \in RemoteErrors : ret[p].val.message # e.message
            /\ resp[p] = FailureResponse(ret[p].val.message)

\* A quote request whose remote getOrderBook failed with a transport error
\* was answered 500.
C16_Witness ==
    \E p \in Procs :
        /\ call[p].route = "GET /markets/:tokenId/quote"
        /\ loc[p].failed = <<[kind |-> "transport", message |-> "ECONNREFUSED"]>>
        /\ resp[p].status = 500

\* The handler's own check of the request failed.
ValidationFailed(c) ==
    CASE c.route = "POST /orders" -> ValidateOrder(c.body) # ""
      [] c.route \in BookRoutes \cup {"GET /balance/:tokenId"} -> ~Truthy(c.tokenId)
      [] c.route = "DELETE /orders/:orderId" -> ~Truthy(c.body.orderId)
      [] OTHER -> FALSE

\* C17: every request a route handler finished has a response: 400 with
\* {success:false, error} exactly when the handler's validation failed (and
\* then no Facade method was called), 500 with {success:false, error}
\* exactly when the Facade call threw, and 200 exactly when it returned.
C17_StatusByOutcome ==
    \A p \in Procs :
        (pc[p] = "done" /\ call[p].route # "none") =>
            /\ resp[p].status \in {200, 400, 500}
            /\ resp[p].status = 400 <=> ValidationFailed(call[p])
            /\ resp[p].status = 400 <=> facade[p] = <<>>
            /\ resp[p].status = 500 <=> ret[p].kind = "throw"
            /\ resp[p].status = 200 <=> ret[p].kind = "return"
            /\ resp[p].status \in {400, 500} =>
                  /\ DOMAIN resp[p].body = {"success", "error"}
                  /\ resp[p].body.success = FALSE
                  /\ resp[p].body.error # ""
            /\ (call[p].route = "POST /orders" /\ BadOrderBody(call[p].body)) =>
                  resp[p].status = 400

\* A DELETE /orders/:orderId whose remote cancelOrder failed: cancelOrder
\* returned success=false, and the route answered 200.
C17_Witness ==
    \E p \in Procs :
        /\ call[p].route = "DELETE /orders/:orderId"
        /\ loc[p].failed # <<>>
        /\ ret[p].kind = "return"
        /\ resp[p].status = 200
        /\ resp[p].body.success = FALSE

\* A route handler ran for the request of p.
Handled(p) == call[p].route # "none" \/ facade[p] # <<>> \/ remote[p] # <<>>

\* The payment middleware ran on the request of p and passed it on.
PassedPayment(p) ==
    \E k \in DOMAIN gate[p].trail :
        gate[p].trail[k] = [stage |-> "paymentMiddleware", out |-> "next"]

\* C18: a route handler of the routers (and so a Facade method, a remote
\* call) runs for a request only after the payment middleware ran on it and
\* passed it on; a response to a request that did not go through the payment
\* middleware is that of GET / or GET /health; and every route the two
\* routers register has an entry in the price table, for the same verb and
\* the same paths.
C18_PaymentFirst ==
    /\ \A r \in MarketRouteTable \cup TradingRouteTable :
          \E e \in PriceTable :
              /\ e.verb = r.verb
              /\ \A path \in Paths : Matches(r.pattern, path) <=> Matches(e.pattern, path)
    /\ \A p \in Procs :
          /\ Handled(p) =>
                /\ PassedPayment(p)
                /\ Priced(gate[p])
                /\ gate[p].proof = "valid"
          /\ (resp[p] # NoResp
                /\ \A k \in DOMAIN gate[p].trail : gate[p].trail[k].stage # "paymentMiddleware") =>
                /\ gate[p].verb = "GET"
                /\ gate[p].path \in {<<>>, <<"health">>}
                /\ ~Handled(p)

\* A paid POST /orders went through the payment middleware to its handler,
\* which answered 200.
C18_Witness ==
    \E p \in Procs :
        /\ PassedPayment(p)
        /\ call[p].route = "POST /orders"
        /\ facade[p] # <<>>
        /\ resp[p].status = 200

\* The GET /markets requests that reached the Facade.
MarketsRequests == {p \in Procs : call[p].route = "GET /markets" /\ facade[p] # <<>>}

\* C19: GET /markets passes to getMarkets, for each of active, closed and
\* archived, true when the query gives "true" and false when it gives
\* "false", and as limit the number the query gives, 50 when it gives none;
\* a request with no parameter at all is served.
C19_MarketsFilters ==
    /\ \A p \in Procs : call[p].route = "GET /markets" => facade[p] # <<>>
    /\ \A p \in MarketsRequests :
          LET q == call[p].body
              params == facade[p][1].params
          IN  /\ \A f \in {"active", "closed", "archived"} :
                    /\ q[f] = JsStr(<<"t", "r", "u", "e">>) => params[f] = JsBool(TRUE)
                    /\ q[f] = JsStr(<<"f", "a", "l", "s", "e">>) => params[f] = JsBool(FALSE)
              /\ q.limit = Undefined => params.limit = JsNum(50 * Scale)
              /\ (q.limit # Undefined /\ IsFin(StringToNumber(q.limit.s))) =>
                    params.limit.n = StringToNumber(q.limit.s)

\* The getBalance calls that returned a Balance.
BalanceReturned == {p \in Procs : call[p].method = "getBalance" /\ ret[p].kind = "return"}

\* C20: the Balance getBalance returns is the balance and the allowance of
\* one of the remote responses of that call, each divided by 1,000,000.
C20_BalanceOfOneResponse ==
    \A p \in BalanceReturned :
        \E r \in {loc[p].balance, loc[p].allowance} :
            /\ ret[p].val.balanceUSD = DivMillion(ParseFloatStr(r.balance))
            /\ ret[p].val.allowanceUSD = DivMillion(ParseFloatStr(r.allowance))

\* The request of p was received by the app, or a route handler ran for it.
Served(p) == gate[p] # NoGate \/ call[p].route # "none" \/ resp[p] # NoResp

\* C21: in the main server the listener starts only after initialize()
\* succeeded: the server listens only with the flag set and initialize()
\* returned to the module body, a request is received and a route handler
\* runs only on a listening server with an initialized Facade, and once the
\* startup derivation failed the server does not listen, no request is
\* received or answered, and a server that exited stays so.
C21_ListenAfterInitialize ==
    /\ [](server = "listening" => (initialized /\ ret[Main] = Return(<<>>)))
    /\ [](\A p \in Procs : Served(p) => (initialized /\ server = "listening"))
    /\ [](ret[Main].kind = "throw" =>
             /\ server \in {"starting", "exited"}
             /\ ~initialized
             /\ \A p \in Procs : ~Served(p) /\ (p # Main => facade[p] = <<>>))
    /\ [][server = "exited" => server' = "exited"]_vars
    /\ [][(server # "listening" /\ server' = "listening") =>
              (initialized /\ pc[Main] = "returning")]_vars

\* After a startup whose derivation succeeded, a paid request reached its
\* route handler and was answered 200.
C21_Witness ==
    /\ server = "listening"
    /\ deriveCalls = 1
    /\ facade[Main] = <<[method |-> "initialize", params |-> <<>>]>>
    /\ \E p \in Procs :
          /\ gate[p].proof = "valid"
          /\ facade[p] # <<>>
          /\ resp[p].status = 200

\* The startup derivation failed and the process ended.
StartupAborted == server = "exited" /\ deriveFailures = 1 /\ ~initialized

\* C22: a failed initialize() is not remembered.  The step in which a
\* deriveApiKey call fails leaves the flag as it is, so a flag that was false
\* stays false, and the Facade is uninitialized as long as every derivation
\* issued so far has failed; a call of initialize() or of a credentialed
\* method that starts with the flag false issues deriveApiKey again, however
\* many derivations failed before; and when that derivation resolves the
\* flag is set and the call goes on as a first call would (initialize() to
\* its return, a credentialed method to its first remote call).
C22_FailureNotRemembered ==
    /\ [](deriveFailures = deriveCalls => ~initialized)
    /\ [][\A p \in Procs :
            /\ (pc[p] = "deriving" /\ deriveFailures' # deriveFailures /\ pc'[p] # pc[p]) =>
                  /\ initialized' = initialized
                  /\ deriveCalls' = deriveCalls
            /\ (~initialized /\ pc[p] \in {"idle", "done"} /\ pc'[p] # pc[p]) =>
                  /\ pc'[p] = "deriving"
                  /\ deriveCalls' = deriveCalls + 1
                  /\ remote'[p] = <<RemoteCall("deriveApiKey", <<>>)>>
            /\ (pc[p] = "deriving" /\ deriveFailures' = deriveFailures /\ pc'[p] # pc[p]) =>
                  /\ initialized'
                  /\ pc'[p] = IF call[p].method = "initialize" THEN "returning" ELSE "ready"
                  /\ ret'[p] = NoRet
            /\ (pc[p] = "ready" /\ pc'[p] # pc[p] /\ call[p].route = "none") =>
                  remote'[p] = <<RemoteCall("deriveApiKey", <<>>),
                                 RemoteCall(FirstRemote(call[p].method), <<>>)>>
                  \/ remote'[p] = <<RemoteCall(FirstRemote(call[p].method), <<>>)>>]_vars

\* One caller made two calls, one after the other: the derivation of the
\* first failed, that of the second resolved, and the second call, a
\* credentialed method, issued its remote call.
C22_Witness ==
    \E p \in Procs :
        /\ deriveFailures = 1
        /\ deriveCalls = 2
        /\ initialized
        /\ call[p].method \in CredentialedMethods
        /\ remote[p] = <<RemoteCall("deriveApiKey", <<>>),
                         RemoteCall(FirstRemote(call[p].method), <<>>)>>
        /\ \A q \in Procs \ {p} : pc[q] = "idle" /\ facade[q] = <<>>

\* A route handler started for the request of p.
Reached(p) == call[p].route # "none"

\* C23: every request that reaches a route handler gets exactly one
\* response.  Provided every remote call eventually returns or fails, the
\* handler eventually sends a response (200, 400 or 500).  Once a response
\* is sent the handler sends no other and does nothing more: the response,
\* the Facade calls, the remote calls and the Facade's result stay as they
\* are.  A handler that has finished has sent its response, and a request
\* answered 400 has called no Facade method and issued no remote call.
C23_ExactlyOneResponse ==
    /\ \A p \in Procs : Reached(p) ~> (pc[p] = "done" /\ resp[p].status \in {200, 400, 500})
    /\ [][\A p \in Procs :
            resp[p] # NoResp =>
               /\ resp'[p] = resp[p]
               /\ pc'[p] = "done"
               /\ facade'[p] = facade[p]
               /\ remote'[p] = remote[p]
               /\ ret'[p] = ret[p]]_vars
    /\ [](\A p \in Procs :
            /\ (Reached(p) /\ pc[p] = "done") <=> resp[p] # NoResp
            /\ resp[p].status = 400 => (facade[p] = <<>> /\ remote[p] = <<>>))

\* A DELETE /orders that listed three orders and issued three cancellations,
\* one of which failed, was answered 200.
C23_Witness ==
    \E p \in Procs :
        /\ call[p].route = "DELETE /orders"
        /\ Len(loc[p].outcomes) = 3
        /\ \E k \in 1 .. 3 : ~loc[p].outcomes[k]
        /\ pc[p] = "done"
        /\ resp[p].status = 200

\* The remote getOrders of a DELETE /orders request of p failed.
ListingFailed(p) == call[p].route = "DELETE /orders" /\ loc[p].failed # <<>>

\* C24: when the listing of the open orders fails inside cancelAllOrders,
\* the operation has issued getOrders once and no cancelOrder, it does not
\* throw but returns {success: false, cancelledCount: 0}, and DELETE /orders
\* answers 200 with that result as the body; on a Facade that was
\* initialized when the request arrived, getOrders is the only remote call.
C24_ListingFailureReported ==
    \A p \in Procs :
        ListingFailed(p) =>
            /\ pc[p] = "done"
            /\ Issued(p, "getOrders") = 1
            /\ Issued(p, "cancelOrder") = 0
            /\ remote[p][Len(remote[p])] = RemoteCall("getOrders", <<>>)
            /\ deriveCalls = 1 /\ deriveFailures = 0
            /\ Len(remote[p]) = 1 <=> remote[p][1].name # "deriveApiKey"
            /\ loc[p].orders = <<>> /\ loc[p].outcomes = <<>>
            /\ ret[p] = Return([success |-> FALSE, cancelledCount |-> 0])
            /\ resp[p] = [status |-> 200, body |-> [success |-> FALSE, cancelledCount |-> 0]]

\* A DELETE /orders with a token filter arrived at an initialized Facade, its
\* getOrders failed with a transport error, and it was answered 200.
C24_Witness ==
    \E p \in Procs :
        /\ ListingFailed(p)
        /\ Truthy(call[p].tokenId)
        /\ remote[p] = <<RemoteCall("getOrders", <<>>)>>
        /\ loc[p].failed = <<[kind |-> "transport", message |-> "ECONNREFUSED"]>>
        /\ resp[p].status = 200

=============================================================================
